---------------------------- MODULE Spec2Model ----------------------------
(***************************************************************************)
(* Model of the explore view container of the Superset frontend            *)
(* (superset-frontend/src/explore/components/ExploreViewContainer):        *)
(* the control snapshots and their classification, the staleness memo,     *)
(* the debounced history synchronizer updateHistory and the popstate /     *)
(* keydown listener effects.                                               *)
(***************************************************************************)
EXTENDS Integers, Sequences, FiniteSets, TLC

(***************************************************************************)
(* Control values.  A value is opaque to the container except for deep     *)
(* equality, isObjectLike and the datasourceWarning field of object        *)
(* values.  kind is the JavaScript shape, v the semantic content and w the *)
(* content of the datasourceWarning field (0: the field is absent).        *)
(***************************************************************************)
Undefined == [kind |-> "undefined", v |-> 0, w |-> 0]

Null == [kind |-> "null", v |-> 0, w |-> 0]

Prim(x) == [kind |-> "primitive", v |-> x, w |-> 0]

Obj(x, warning) == [kind |-> "object", v |-> x, w |-> warning]

Values == {Undefined, Null, Prim(0), Prim(1), Obj(0, 0), Obj(0, 1), Obj(1, 0)}

\* lodash isObjectLike
isObjectLike(value) == value.kind = "object"

\* lodash isEqual: structural (deep) equality
isEqual(value1, value2) == value1 = value2

\* lodash omit of a set of field names from a value
omit(value, fields) ==
    IF value.kind = "object" /\ "datasourceWarning" \in fields
    THEN [value EXCEPT !.w = 0]
    ELSE value

\* src/reduxUtils areObjectsEqual(obj1, obj2, { ignoreFields })
areObjectsEqual(obj1, obj2, ignoreFields) ==
    isEqual(omit(obj1, ignoreFields), omit(obj2, ignoreFields))

(***************************************************************************)
(* Control snapshots: a function from the names that are present to        *)
(* control records.  Object.keys(controls) is DOMAIN controls, and         *)
(* typeof snapshot[key] === 'undefined' is key \notin DOMAIN snapshot.     *)
(***************************************************************************)
Control(value, renderTrigger, dontRefreshOnChange) ==
    [value |-> value, renderTrigger |-> renderTrigger,
     dontRefreshOnChange |-> dontRefreshOnChange]

\* an optional value: <<>> is undefined, <<x>> is x
None == <<>>

Some(x) == <<x>>

VARIABLES
    controls,             \* props.controls
    previousControls,     \* usePrevious(props.controls) as seen by the render
    lastQueriedControls,  \* useState: controls when a query was last triggered
    staleMemo,            \* the useMemo value chartIsStale of the last render
    classified,           \* result of the last run of the controls effect
    mounted,              \* "initial", "mounted" or "unmounted"
    chart,                \* props.chart: latestQueryFormData, triggerQuery
    chartId,              \* props.chart.id
    changed,              \* props and state that changed since the last render
    controlsRef,          \* the ref of usePrevious(props.controls)
    hooks,                \* per event type: handler, usePrevious ref, effect deps, cleanup
    listeners,            \* the registered event listeners: target, type, handler
    dispatched,           \* the actions dispatched by the last render or handler
    triggerQueries,       \* number of triggerQuery actions dispatched by the last render or handler
    ops,                  \* number of user operations so far
    lastArgs,             \* debounce: arguments of the pending call, or None
    sinceCall,            \* debounce: ms since the last call, capped at the wait
    running,              \* executions of the updateHistory body awaiting the remote call
    remote,               \* the remote form-data store: key -> form data
    location,             \* window.location: onExplore (pathname), search (parameters)
    history,              \* window.history: the entries written so far
    calls,                \* log of the calls of updateHistory
    started,              \* log of the executions of the updateHistory body
    requests,             \* log of the requests sent to the remote store
    completed,            \* log of the outcomes of the remote calls
    navLog,               \* log of the replaceState / pushState calls
    warnLog,              \* calls whose execution ended in logging.warn
    uncaught,             \* calls whose execution threw out of updateHistory
    cursor,               \* window.history: the index of the current entry
    props,                \* props.force, standalone, slice, ownState, validation errors
    dynamicPlugin,        \* isDynamicPluginLoading: dynamicPlugin && dynamicPlugin.mounting
    pluginRef,            \* the ref of usePrevious(isDynamicPluginLoading)
    closure,              \* per event type: the props captured by the handler of the last render
    lastQuery,            \* the arguments of the last postChartFormData of a handler
    lastEvent,            \* the last popstate or keydown event delivered
    saves,                \* the saveSlice calls and their outcomes
    tabId,                \* useTabId(): the id of the browser tab, None until it is known
    collection            \* CollectionControl: props.value, and the list given to props.onChange

pureVars == <<controls, previousControls, lastQueriedControls, staleMemo, classified>>

debounceVars == <<lastArgs, sinceCall, calls, started>>

persistVars == <<running, remote, location, history, requests, completed,
                 navLog, warnLog, uncaught, cursor>>

hookVars == <<mounted, chart, chartId, changed, controlsRef, hooks, listeners,
              dispatched, triggerQueries, ops>>

bridgeVars == <<props, dynamicPlugin, pluginRef, closure, lastQuery, lastEvent, saves,
               tabId, collection>>

componentVars == <<pureVars, hookVars, bridgeVars>>

vars == <<pureVars, hookVars, bridgeVars, debounceVars, persistVars>>

(***************************************************************************)
(* The staleness memo, index.jsx 480-505.                                  *)
(***************************************************************************)
\* 483-496: keys whose value differs from the last queried value
staleChangedControlKeys(lastQueried, ctl) ==
    {key \in DOMAIN ctl :
        IF key \notin DOMAIN lastQueried
        THEN FALSE
        ELSE LET value1 == ctl[key].value
                 value2 == lastQueried[key].value
             IN  IF isObjectLike(value1) /\ isObjectLike(value2)
                 THEN ~areObjectsEqual(value1, value2, {"datasourceWarning"})
                 ELSE ~isEqual(value1, value2)}

\* the filter of 498-502 without the test of renderTrigger
staleControlKeys_ignoresRenderTrigger(lastQueried, ctl) ==
    {key \in staleChangedControlKeys(lastQueried, ctl) :
        ~ctl[key].dontRefreshOnChange}

\* the filter of 498-502 without the test of dontRefreshOnChange
staleControlKeys_ignoresDontRefresh(lastQueried, ctl) ==
    {key \in staleChangedControlKeys(lastQueried, ctl) :
        ~ctl[key].renderTrigger}

\* 498-502: the changed keys that make the chart stale
staleControlKeys(lastQueried, ctl) ==
    {key \in staleChangedControlKeys(lastQueried, ctl) :
        ~ctl[key].renderTrigger /\ ~ctl[key].dontRefreshOnChange}

chartIsStale(lastQueried, ctl) ==
    IF lastQueried # None
    THEN staleControlKeys(lastQueried[1], ctl) # {}
    ELSE FALSE

(***************************************************************************)
(* The classification of the controls effect, index.jsx 461-473.           *)
(***************************************************************************)
\* a classification that passes over a control whose value is undefined or
\* null
changedControlKeys_skipsUndefined(previous, ctl) ==
    {key \in DOMAIN ctl :
        key \in DOMAIN previous
        /\ ctl[key].value \notin {Undefined, Null}
        /\ ~areObjectsEqual(ctl[key].value, previous[key].value, {})}

\* a comparison of the control objects by reference: a replaced snapshot has
\* new objects
changedControlKeys_byReference(previous, ctl) ==
    {key \in DOMAIN ctl : key \in DOMAIN previous}

\* 461-468
changedControlKeys(previous, ctl) ==
    {key \in DOMAIN ctl :
        key \in DOMAIN previous
        /\ ~areObjectsEqual(ctl[key].value, previous[key].value, {})}

\* the filter of 471-473 reading renderTrigger from the previous snapshot
displayControlsChanged_previousFlag(previous, ctl) ==
    {key \in changedControlKeys(previous, ctl) : previous[key].renderTrigger}

\* 471-473
displayControlsChanged(previous, ctl) ==
    {key \in changedControlKeys(previous, ctl) : ctl[key].renderTrigger}

(***************************************************************************)
(* updateHistory = debounce(async (...) => {...}, 1000), index.jsx 162-233 *)
(***************************************************************************)
\* the wait of the debounce, in ms
DebounceWait == 1000

\* bound on the number of calls of updateHistory in a behaviour
MaxCalls == 3

\* the amounts of time that pass in one step of the clock, in ms
TickSizes == {500}

NoKey == 0

Min(a, b) == IF a < b THEN a ELSE b

Last(seq) == seq[Len(seq)]

\* a debounce that keeps the arguments of the first call of a burst
debounced_keepsFirst(argsSeq) ==
    IF argsSeq = <<>>
    THEN UNCHANGED <<lastArgs, sinceCall, calls>>
    ELSE /\ lastArgs' = IF lastArgs = None THEN Some(argsSeq[1]) ELSE lastArgs
         /\ sinceCall' = 0
         /\ calls' = calls \o [i \in 1..Len(argsSeq) |->
                         [args |-> argsSeq[i],
                          gap |-> IF i = 1 THEN sinceCall ELSE 0]]

\* lodash debounce, trailing edge only: every call replaces the pending
\* arguments and restarts the wait.  argsSeq: the calls made in one turn.
debounced(argsSeq) ==
    IF argsSeq = <<>>
    THEN UNCHANGED <<lastArgs, sinceCall, calls>>
    ELSE /\ lastArgs' = Some(Last(argsSeq))
         /\ sinceCall' = 0
         /\ calls' = calls \o [i \in 1..Len(argsSeq) |->
                         [args |-> argsSeq[i],
                          gap |-> IF i = 1 THEN sinceCall ELSE 0]]

\* a timer that needs more than the wait to have passed
shouldInvoke_afterWait(timeSinceLastCall) == timeSinceLastCall > DebounceWait

\* lodash shouldInvoke at the expiry of the timer
shouldInvoke(timeSinceLastCall) == timeSinceLastCall >= DebounceWait

\* window.location.pathname.startsWith(ensureAppRoot('/explore')), 217
onExploreRoute == location.onExplore

\* src/utils/urlUtils getUrlParam: the parameter of the address bar, or null
getUrlParam(name) ==
    IF name \in DOMAIN location.search THEN location.search[name] ELSE NoKey

\* a JavaScript truth test of a value
jsTruthy(value) ==
    CASE value.kind = "primitive" -> value.v # 0
      [] value.kind = "object" -> TRUE
      [] OTHER -> FALSE

\* a field of the form data, undefined when the form data has no such field
field(formData, name) ==
    IF name \in DOMAIN formData THEN formData[name] ELSE Undefined

\* src/constants RESERVED_CHART_URL_PARAMS: the names of the parameters for
\* the form-data key, the chart id, the datasource id and type, and the
\* standalone mode
RESERVED_CHART_URL_PARAMS ==
    {"form_data_key", "slice_id", "datasource_id", "datasource_type", "standalone"}

\* 186: payload?.url_params || {}
urlParams(formData) ==
    LET url_params == field(formData, "url_params")
    IN  IF jsTruthy(url_params) THEN url_params.v ELSE <<>>

\* an identity with the datasource also when the form data has a chart id
identityParam_both(args) ==
    LET slice_id == field(args.formData, "slice_id")
    IN  [p \in {"datasource_id", "datasource_type"}
                 \cup (IF jsTruthy(slice_id) THEN {"slice_id"} ELSE {}) |->
            CASE p = "slice_id" -> slice_id.v
              [] p = "datasource_id" -> args.datasourceId
              [] OTHER -> args.datasourceType]

\* 178-184: the parameters of the identity: the chart id of the form data,
\* or else the datasource
identityParam(args) ==
    LET slice_id == field(args.formData, "slice_id")
    IN  IF jsTruthy(slice_id)
        THEN [p \in {"slice_id"} |-> slice_id.v]
        ELSE [p \in {"datasource_id", "datasource_type"} |->
                 IF p = "datasource_id" THEN args.datasourceId
                 ELSE args.datasourceType]

\* 175-190: the parameters of the address bar when the body starts, then
\* those of the identity, then the entries of url_params that are not reserved
additionalParam(args) ==
    LET search == location.search
        identity == identityParam(args)
        extra == urlParams(args.formData)
        copied == DOMAIN extra \ RESERVED_CHART_URL_PARAMS
    IN  [p \in DOMAIN search \cup DOMAIN identity \cup copied |->
            IF p \in copied THEN extra[p]
            ELSE IF p \in DOMAIN identity THEN identity[p]
            ELSE search[p]]

\* 173-215: the body up to its await: the request to the remote store
execution(call, args) ==
    [call |-> call, args |-> args,
     key |-> IF args.isReplace THEN NoKey ELSE getUrlParam("form_data_key"),
     additionalParam |-> additionalParam(args)]

\* 218-225: { [URL_PARAMS.formDataKey.name]: key, ...additionalParam }, the
\* search of the URL built by mountExploreUrl
mountExploreUrl(key, params) ==
    [p \in {"form_data_key"} \cup DOMAIN params |->
        IF p \in DOMAIN params THEN params[p] ELSE key]

request(e) ==
    [call |-> e.call, method |-> IF e.args.isReplace THEN "post" ELSE "put",
     key |-> e.key, formData |-> e.args.formData]

\* the timer of the debounce expires: the body starts with the pending arguments
invokeFunc(quiet) ==
    LET e == execution(Len(calls), lastArgs[1])
    IN  /\ lastArgs' = None
        /\ started' = Append(started, [call |-> e.call, args |-> e.args, quiet |-> quiet])
        /\ running' = running \cup {e}
        /\ requests' = requests \cup {request(e)}

\* time passes; the timer fires once DebounceWait ms have passed since the last call
Tick(d) ==
    /\ sinceCall' = Min(sinceCall + d, DebounceWait)
    /\ IF lastArgs # None /\ shouldInvoke(sinceCall')
       THEN invokeFunc(sinceCall')
       ELSE UNCHANGED <<lastArgs, started, running, requests>>
    /\ UNCHANGED <<calls, remote, location, history, completed, navLog, warnLog,
                   uncaught, cursor>>
    /\ UNCHANGED componentVars

\* 219: standalone ? URL_PARAMS.standalone.name : null
endpointType(standalone) == IF standalone THEN "standalone" ELSE "null"

\* window.history[stateModifier](payload, title, url): replaceState rewrites
\* the current entry, pushState drops the entries after it and adds one
historyCall(stateModifier, e, key) ==
    LET url == mountExploreUrl(key, e.additionalParam)
        entry == [state |-> Some(e.args.formData), url |-> url]
    IN  /\ history' = IF stateModifier = "replaceState"
                      THEN [history EXCEPT ![cursor] = entry]
                      ELSE Append(SubSeq(history, 1, cursor), entry)
        /\ cursor' = IF stateModifier = "replaceState" THEN cursor ELSE cursor + 1
        /\ location' = [location EXCEPT !.search = url]
        /\ navLog' = navLog \cup {[call |-> e.call, method |-> stateModifier,
                                   key |-> key, formData |-> e.args.formData,
                                   endpointType |-> endpointType(e.args.standalone)]}

\* the mutation of the navigation state without the route guard
historyMutation_unguarded(e, key) ==
    historyCall(IF e.args.isReplace THEN "replaceState" ELSE "pushState", e, key)

\* the mutation of the navigation state that always pushes
historyMutation_alwaysPush(e, key) ==
    IF onExploreRoute
    THEN historyCall("pushState", e, key)
    ELSE UNCHANGED <<history, location, navLog, cursor>>

\* 216-227: the route guard and the mutation of the navigation state
historyMutation(e, key) ==
    LET stateModifier == IF e.args.isReplace THEN "replaceState" ELSE "pushState"
    IN  IF onExploreRoute
        THEN historyCall(stateModifier, e, key)
        ELSE UNCHANGED <<history, location, navLog, cursor>>

\* the key generated by the remote store for a new entry
freshKey == IF DOMAIN remote = {} THEN 1
            ELSE 1 + CHOOSE k \in DOMAIN remote : \A j \in DOMAIN remote : j <= k

\* 195-215, 216-227: the remote call resolved
persistSucceeded(e) ==
    LET key == IF e.args.isReplace THEN freshKey ELSE e.key
    IN  /\ e.args.isReplace \/ e.key \in DOMAIN remote
        /\ remote' = [k \in DOMAIN remote \cup {key} |->
                         IF k = key THEN e.args.formData ELSE remote[k]]
        /\ completed' = completed \cup {[call |-> e.call, ok |-> TRUE]}
        /\ historyMutation(e, key)
        /\ UNCHANGED <<warnLog, uncaught>>

\* the remote call rejected and nothing catches the rejection
persistFailed_rethrows(e) ==
    /\ completed' = completed \cup {[call |-> e.call, ok |-> FALSE]}
    /\ uncaught' = uncaught \cup {e.call}
    /\ UNCHANGED <<remote, history, location, navLog, warnLog, cursor>>

\* a body that mutates the navigation state although the remote call rejected
persistFailed_mutates(e) ==
    /\ completed' = completed \cup {[call |-> e.call, ok |-> FALSE]}
    /\ warnLog' = warnLog \cup {e.call}
    /\ historyMutation(e, e.key)
    /\ UNCHANGED <<remote, uncaught>>

\* 228-230: the remote call rejected: catch and logging.warn
persistFailed(e) ==
    /\ completed' = completed \cup {[call |-> e.call, ok |-> FALSE]}
    /\ warnLog' = warnLog \cup {e.call}
    /\ UNCHANGED <<remote, history, location, navLog, uncaught, cursor>>

RemoteComplete(e) ==
    /\ e \in running
    /\ running' = running \ {e}
    /\ persistSucceeded(e) \/ persistFailed(e)
    /\ UNCHANGED <<requests>>
    /\ UNCHANGED debounceVars
    /\ UNCHANGED componentVars

\* the user changes route, away from or back to the explore page
Navigate ==
    /\ location' = [location EXCEPT !.onExplore = ~location.onExplore]
    /\ UNCHANGED <<running, remote, history, requests, completed, navLog, warnLog,
                   uncaught, cursor>>
    /\ UNCHANGED debounceVars
    /\ UNCHANGED componentVars

(***************************************************************************)
(* The history synchronizer on its own: updateHistory is called with       *)
(* arbitrary arguments at arbitrary times.                                 *)
(***************************************************************************)
\* a query definition
FormData(x) == [n \in {"granularity"} |-> Prim(x)]

FormDatas == {FormData(1), FormData(2)}

\* the id of this browser tab
TabId == "1"

\* props.datasource.id and props.datasource.type
DatasourceId == 1

DatasourceType == "table"

ArgsSet == [formData : FormDatas, datasourceId : {DatasourceId},
            datasourceType : {DatasourceType}, isReplace : BOOLEAN,
            standalone : {FALSE}, force : {FALSE}, title : {"undefined"},
            tabId : {Some(TabId)}]

CallUpdateHistory(args) ==
    /\ Len(calls) < MaxCalls
    /\ debounced(<<args>>)
    /\ UNCHANGED started
    /\ UNCHANGED persistVars
    /\ UNCHANGED componentVars

NoControls == <<>>

EventTypes == {"popstate", "keydown"}

NoHook == [handler |-> 0, ref |-> None, deps |-> None, cleanup |-> None]

\* the component before its first render
InitHooks ==
    /\ mounted = "initial"
    /\ changed = {}
    /\ controlsRef = None
    /\ hooks = [type \in EventTypes |-> NoHook]
    /\ listeners = {}
    /\ dispatched = {}
    /\ triggerQueries = 0
    /\ ops = 0

\* the props of an instance that is not standalone and has no slice, no
\* ownState, no control with validation errors and the saveAction null
DefaultProps ==
    [force |-> FALSE, standalone |-> FALSE, slice |-> FALSE, ownState |-> None,
     validationErrors |-> {}, saveAction |-> None]

\* the props that the controls do not determine, the plugin registry and
\* the handlers before the first render
InitBridge(p, plugin) ==
    /\ props = p
    /\ dynamicPlugin = plugin
    /\ pluginRef = None
    /\ closure = [type \in EventTypes |-> None]
    /\ lastQuery = None
    /\ lastEvent = None
    /\ saves = <<>>
    /\ tabId = None
    /\ collection = [value |-> <<>>, reported |-> None, aliased |-> FALSE]

InitIdleComponent ==
    /\ InitHooks
    /\ InitBridge(DefaultProps, None)
    /\ chart = [latestQueryFormData |-> NoControls, triggerQuery |-> FALSE]
    /\ chartId = 1
    /\ controls = NoControls
    /\ previousControls = None
    /\ lastQueriedControls = None
    /\ staleMemo = FALSE
    /\ classified = None

InitHistoryAt(urlKeys) ==
    /\ lastArgs = None
    /\ sinceCall = DebounceWait
    /\ calls = <<>>
    /\ started = <<>>
    /\ running = {}
    /\ \E k \in urlKeys :
          LET search == [p \in (IF k = NoKey THEN {} ELSE {"form_data_key"}) |-> k]
          IN  /\ location = [onExplore |-> TRUE, search |-> search]
              /\ remote = [j \in (IF k = NoKey THEN {} ELSE {k}) |-> FormData(1)]
              /\ history = <<[state |-> None, url |-> search]>>
              /\ cursor = 1
    /\ requests = {}
    /\ completed = {}
    /\ navLog = {}
    /\ warnLog = {}
    /\ uncaught = {}

InitSync == InitHistoryAt({NoKey, 1}) /\ InitIdleComponent

NextSync ==
    \/ \E args \in ArgsSet : CallUpdateHistory(args)
    \/ \E d \in TickSizes : Tick(d)
    \/ \E e \in running : RemoteComplete(e)
    \/ Navigate

SpecSync == InitSync /\ [][NextSync]_vars

\* the classification of the controls effect
classify(previous, ctl) ==
    [changed |-> changedControlKeys(previous, ctl),
     display |-> displayControlsChanged(previous, ctl)]

(***************************************************************************)
(* The component ExploreViewContainer, index.jsx 249-524.  One step is one *)
(* turn of the event loop: a store update, a handler, or a render pass     *)
(* with the effects it commits.  A prop or a state that changes is added   *)
(* to changed, and the next render pass runs the effects that depend on it.*)
(***************************************************************************)
\* bound on the number of user operations in a behaviour
MaxOps == 2

ControlNames == {"viz_type", "granularity", "color_scheme"}

\* the controls configured with renderTrigger: true
RenderTriggerControls == {"color_scheme"}

\* the controls configured with dontRefreshOnChange: true
DontRefreshControls == {}

InitialControls ==
    [n \in ControlNames |->
        Control(Prim(0), n \in RenderTriggerControls, n \in DontRefreshControls)]

\* src/explore/controlUtils getFormDataFromControls: name -> value
getFormDataFromControls(ctl) == [n \in DOMAIN ctl |-> ctl[n].value]

\* lodash pick
pick(ctl, names) == [n \in DOMAIN ctl \cap names |-> ctl[n]]

\* mapStateToProps, 773-776: form_data is derived from the controls
form_data == getFormDataFromControls(controls)

\* the props that a callback created by this render captures
capturedProps ==
    [controls |-> controls, chartId |-> chartId, force |-> props.force,
     standalone |-> props.standalone, slice |-> props.slice, tabId |-> tabId]

\* an addHistory that does not pass props.standalone on
addHistoryWith_dropsStandalone(env, isReplace) ==
    [formData |-> getFormDataFromControls(env.controls),
     datasourceId |-> DatasourceId, datasourceType |-> DatasourceType,
     isReplace |-> isReplace, standalone |-> FALSE, force |-> env.force, title |-> "undefined",
     tabId |-> env.tabId]

\* 279-309 addHistory({ isReplace, title }) of a callback that captured env:
\* the arguments given to updateHistory
addHistoryWith(env, isReplace) ==
    [formData |-> getFormDataFromControls(env.controls),
     datasourceId |-> DatasourceId, datasourceType |-> DatasourceType,
     isReplace |-> isReplace, standalone |-> env.standalone, force |-> env.force, title |-> "undefined",
     tabId |-> env.tabId]

\* addHistory of this render
addHistory(isReplace) == addHistoryWith(capturedProps, isReplace)

Quiescent == mounted = "mounted" /\ changed = {}

\* the handlers in use for an event type
usedHandlers(type) ==
    {l.handler : l \in {x \in listeners : x.type = type}}
        \cup {hooks[type].handler}
        \cup {hooks[type].ref[i] : i \in DOMAIN hooks[type].ref}
        \cup {hooks[type].cleanup[i] : i \in DOMAIN hooks[type].cleanup}

\* a new function object: an identity that no listener or ref holds
freshHandler(type) ==
    CHOOSE h \in 1..(Cardinality(usedHandlers(type)) + 1) :
        /\ h \notin usedHandlers(type)
        /\ \A j \in 1..(h - 1) : j \in usedHandlers(type)

\* the dependencies of useCallback: 322 (handlePopstate), 356 with 329 and
\* 300-308 (handleKeydown through onQuery and addHistory)
handlerDeps(type) ==
    IF type = "popstate"
    THEN {"chart.id"}
    ELSE {"controls", "form_data", "chart.id", "force", "standalone", "slice",
          "tabId"}

\* useCallback makes a new function: first render, or a dependency changed
renews(type, first) == first \/ changed \cap handlerDeps(type) # {}

\* useCallback: the handler of this render
useCallback(type, first) ==
    IF renews(type, first)
    THEN freshHandler(type)
    ELSE hooks[type].handler

\* the props that a handler created by this render reads when it runs:
\* 317-319 (handlePopstate), 324-357 with 281-297 (handleKeydown)
captured(type) ==
    IF type = "popstate"
    THEN [chartId |-> chartId, force |-> props.force]
    ELSE capturedProps

\* the props captured by the handler of this render
useCallbackClosure(type, first) ==
    IF renews(type, first) THEN Some(captured(type)) ELSE closure[type]

\* 391 window.addEventListener('popstate'), 402 document.addEventListener('keydown')
addTarget(type) == IF type = "popstate" THEN "window" ELSE "document"

listener(target, type, handler) ==
    [target |-> target, type |-> type, handler |-> handler]

\* a cleanup that removes the listener from window whatever the event type
cleanupListener_fromWindow(type, hook, L) ==
    IF hook.cleanup = None
    THEN L
    ELSE L \ {listener("window", type, hook.cleanup[1])}

\* 392-394, 403-405: the cleanup returned by the last run of the effect
cleanupListener(type, hook, L) ==
    IF hook.cleanup = None
    THEN L
    ELSE L \ {listener(addTarget(type), type, hook.cleanup[1])}

\* the listener effect when React runs no cleanup before the effect
listenerEffect_noCleanup(type, hook, handler, L) ==
    LET previousHandler == hook.ref
        deps == <<handler, previousHandler>>
    IN  IF hook.deps # None /\ hook.deps[1] = deps
        THEN [listeners |-> L,
              hook |-> [hook EXCEPT !.handler = handler, !.ref = Some(handler)]]
        ELSE LET removed == IF previousHandler # None
                            THEN L \ {listener("window", type, previousHandler[1])}
                            ELSE L
             IN  [listeners |-> removed \cup {listener(addTarget(type), type, handler)},
                  hook |-> [handler |-> handler, ref |-> Some(handler),
                            deps |-> Some(deps), cleanup |-> Some(handler)]]

\* 386-395, 397-406: usePrevious(handler) and the effect with the
\* dependencies [handler, previousHandler]; when they changed, the cleanup
\* of the last run, then the effect
listenerEffect(type, hook, handler, L) ==
    LET previousHandler == hook.ref
        deps == <<handler, previousHandler>>
    IN  IF hook.deps # None /\ hook.deps[1] = deps
        THEN [listeners |-> L,
              hook |-> [hook EXCEPT !.handler = handler, !.ref = Some(handler)]]
        ELSE LET cleaned == cleanupListener(type, hook, L)
                 removed == IF previousHandler # None
                            THEN cleaned \ {listener("window", type, previousHandler[1])}
                            ELSE cleaned
             IN  [listeners |-> removed \cup {listener(addTarget(type), type, handler)},
                  hook |-> [handler |-> handler, ref |-> Some(handler),
                            deps |-> Some(deps), cleanup |-> Some(handler)]]

\* a controls effect without the test of the viz_type
vizTypeMatches_unguarded == TRUE

\* 450: props.chart.latestQueryFormData.viz_type === props.controls.viz_type.value
vizTypeMatches ==
    chart.latestQueryFormData["viz_type"] = controls["viz_type"].value

\* a re-render with the form data of all the controls
newQueryFormData_allControls(controlsChanged) == form_data

\* a re-render in which the latest queried values win over the picked ones
newQueryFormData_latestLast(controlsChanged) ==
    LET picked == getFormDataFromControls(pick(controls, controlsChanged))
        latest == chart.latestQueryFormData
    IN  [n \in DOMAIN latest \cup DOMAIN picked |->
            IF n \in DOMAIN latest THEN latest[n] ELSE picked[n]]

\* 427-432: the form data of the re-render
newQueryFormData(controlsChanged) ==
    LET picked == getFormDataFromControls(pick(controls, controlsChanged))
        latest == chart.latestQueryFormData
    IN  [n \in DOMAIN latest \cup DOMAIN picked |->
            IF n \in DOMAIN picked THEN picked[n] ELSE latest[n]]

NoEffect == [dispatched |-> {}, history |-> <<>>]

\* a re-render that does not call addHistory
reRenderChart_noHistory(controlsChanged) ==
    [dispatched |-> {"updateQueryFormData", "renderTriggered"},
     history |-> <<>>]

\* 425-444 reRenderChart(controlsChanged): the actions it dispatches and its
\* call of addHistory
reRenderChart(controlsChanged) ==
    [dispatched |-> {"updateQueryFormData", "renderTriggered"},
     history |-> <<addHistory(FALSE)>>]

\* a JavaScript truth test of an optional boolean
truthy(x) == x # None /\ x[1]

\* 416-419: some control has a non-empty validationErrors
hasError == props.validationErrors # {}

\* the controls that the controls state gains once the plugin has declared them
PluginControls == {"plugin_option"}

\* src/explore/actions dynamicPluginControlsReady: the controls state is
\* derived again, now with the controls of the plugin
dynamicPluginControlsReady(ctl) ==
    [n \in DOMAIN ctl \cup PluginControls |->
        IF n \in DOMAIN ctl THEN ctl[n] ELSE Control(Prim(0), FALSE, FALSE)]

\* an effect that calls dynamicPluginControlsReady when the loading starts too
pluginReady_anyEdge(first) ==
    /\ first \/ dynamicPlugin # pluginRef
    /\ truthy(pluginRef) \/ truthy(dynamicPlugin)

\* 380-384 useChangeEffect(tabId, ...): the effect with the dependency tabId
\* calls addHistory({ isReplace: true }) when the tab id has changed and is set
tabIdChanged(first) == ~first /\ "tabId" \in changed /\ tabId # None

\* a saveAction effect that runs for every change of props.saveAction
saveActionChanged_anyValue(first) == ~first /\ "saveAction" \in changed

\* 507-513 useChangeEffect(props.saveAction, ...): the effect runs when
\* props.saveAction has changed and is 'saveas' or 'overwrite'
saveActionChanged(first) ==
    /\ ~first
    /\ "saveAction" \in changed
    /\ props.saveAction \in {Some("saveas"), Some("overwrite")}

\* 408-413: the effect with the dependency isDynamicPluginLoading calls
\* dynamicPluginControlsReady
pluginReady(first) ==
    /\ first \/ dynamicPlugin # pluginRef
    /\ truthy(pluginRef)
    /\ ~truthy(dynamicPlugin)

\* 415-423: the effect of the first render triggers the query
mountQuery(first) == first /\ ~hasError

\* 515-520: the effect with the dependency props.ownState calls onQuery and
\* reRenderChart
ownStateQuery(first) ==
    /\ first \/ "ownState" \in changed
    /\ props.ownState # None

\* an onQuery that does not call addHistory
onQuery_noHistory(env) ==
    [dispatched |-> {"setForceQuery", "triggerQuery"}, history |-> <<>>]

\* 324-329 onQuery of a callback that captured env: the actions it dispatches
\* and its call of addHistory
onQuery(env) ==
    [dispatched |-> {"setForceQuery", "triggerQuery"},
     history |-> <<addHistoryWith(env, FALSE)>>]

\* the props that setForceQuery(false) and setLastQueriedControls change
afterQuery == {"chart", "form_data", "state"}
                  \cup (IF props.force THEN {"force"} ELSE {})

\* a controls effect that depends on props.ownState alone
controlsEffectDeps_ownStateOnly == {"ownState"}

\* 478: the dependencies of the controls effect
controlsEffectDeps == {"controls", "ownState"}

\* a previous snapshot that is the last queried one
usePreviousControls_lastQueried == lastQueriedControls

\* 255-256 usePrevious(props.controls): the value that the ref took in the
\* preceding render
usePreviousControls == controlsRef

\* one render pass and the effects it commits
RenderPass(first, lastQueried) ==
    LET previous == usePreviousControls
        effectRuns == first \/ changed \cap controlsEffectDeps # {}
        classifies == effectRuns /\ previous # None /\ vizTypeMatches
        display == IF classifies
                   THEN displayControlsChanged(previous[1], controls)
                   ELSE {}
        controlsEffect == IF display # {} THEN reRenderChart(display) ELSE NoEffect
        reRendered == "updateQueryFormData" \in controlsEffect.dispatched
        tabIdEffect == IF tabIdChanged(first) THEN <<addHistory(TRUE)>> ELSE <<>>
        ready == pluginReady(first)
        saved == saveActionChanged(first)
        saveActionEffect ==
            IF saved
            THEN [dispatched |-> onQuery(capturedProps).dispatched
                                    \cup {"setSaveAction"},
                  history |-> onQuery(capturedProps).history \o <<addHistory(TRUE)>>]
            ELSE NoEffect
        queried == ownStateQuery(first)
        ownStateEffect ==
            IF queried
            THEN [dispatched |-> onQuery(capturedProps).dispatched
                                    \cup reRenderChart(None).dispatched,
                  history |-> onQuery(capturedProps).history
                                    \o reRenderChart(None).history]
            ELSE NoEffect
        pop == listenerEffect("popstate", hooks["popstate"],
                              useCallback("popstate", first), listeners)
        key == listenerEffect("keydown", hooks["keydown"],
                              useCallback("keydown", first), pop.listeners)
        stale == chartIsStale(lastQueried, controls)
    IN  /\ previousControls' = previous
        /\ controlsRef' = Some(controls)
        /\ pluginRef' = dynamicPlugin
        /\ staleMemo' = stale
        /\ classified' = IF classifies
                         THEN Some(classify(previous[1], controls))
                         ELSE None
        /\ hooks' = [type \in EventTypes |->
                        IF type = "popstate" THEN pop.hook ELSE key.hook]
        /\ listeners' = key.listeners
        /\ closure' = [type \in EventTypes |-> useCallbackClosure(type, first)]
        /\ chart' = [latestQueryFormData |->
                        IF "updateQueryFormData" \in ownStateEffect.dispatched
                        THEN form_data
                        ELSE IF reRendered
                             THEN newQueryFormData(display)
                             ELSE chart.latestQueryFormData,
                     triggerQuery |-> chart.triggerQuery \/ mountQuery(first)
                                         \/ saved \/ queried]
        /\ controls' = IF ready THEN dynamicPluginControlsReady(controls) ELSE controls
        /\ props' = [props EXCEPT
                         !.force = IF saved \/ queried THEN FALSE ELSE @,
                         !.saveAction = IF saved THEN None ELSE @]
        /\ dispatched' = (IF stale THEN {"logEvent"} ELSE {})
                            \cup (IF ready THEN {"dynamicPluginControlsReady"} ELSE {})
                            \cup (IF mountQuery(first) THEN {"triggerQuery"} ELSE {})
                            \cup controlsEffect.dispatched
                            \cup saveActionEffect.dispatched
                            \cup ownStateEffect.dispatched
        /\ triggerQueries' = (IF mountQuery(first) THEN 1 ELSE 0)
                                + (IF saved THEN 1 ELSE 0)
                                + (IF queried THEN 1 ELSE 0)
        /\ changed' = (IF reRendered \/ mountQuery(first) THEN {"chart", "form_data"} ELSE {})
                         \cup (IF ready THEN {"controls", "form_data"} ELSE {})
                         \cup (IF saved THEN afterQuery \cup {"saveAction"} ELSE {})
                         \cup (IF queried THEN afterQuery ELSE {})
        /\ debounced(tabIdEffect \o controlsEffect.history \o saveActionEffect.history
                         \o ownStateEffect.history)
        /\ UNCHANGED <<chartId, ops, started>>
        /\ UNCHANGED <<dynamicPlugin, lastQuery, lastEvent, saves, tabId, collection>>
        /\ UNCHANGED persistVars

\* the first render: useState(props.controls) at 258-260, the mount effects
Mount ==
    /\ mounted = "initial"
    /\ mounted' = "mounted"
    /\ lastQueriedControls' = Some(controls)
    /\ RenderPass(TRUE, Some(controls))

Render ==
    /\ mounted = "mounted"
    /\ changed # {}
    /\ RenderPass(FALSE, lastQueriedControls)
    /\ lastQueriedControls' = IF saveActionChanged(FALSE) \/ ownStateQuery(FALSE)
                              THEN Some(controls)
                              ELSE lastQueriedControls
    /\ UNCHANGED mounted

flip(value) == IF value = Prim(0) THEN Prim(1) ELSE Prim(0)

\* the store replaces props.controls; the controls in names get a new value
SetControls(names) ==
    /\ Quiescent
    /\ ops < MaxOps
    /\ ops' = ops + 1
    /\ controls' = [n \in DOMAIN controls |->
                       IF n \in names
                       THEN [controls[n] EXCEPT !.value = flip(controls[n].value)]
                       ELSE controls[n]]
    /\ changed' = {"controls", "form_data"}
    /\ dispatched' = {"setControlValue"}
    /\ triggerQueries' = 0
    /\ UNCHANGED <<previousControls, lastQueriedControls, staleMemo, classified,
                   mounted, chart, chartId, controlsRef, hooks, listeners>>
    /\ UNCHANGED <<bridgeVars, debounceVars, persistVars>>

\* an onQuery that does not call setLastQueriedControls
RunQuery_keepsLastQueried(env) ==
    /\ dispatched' = onQuery(env).dispatched
    /\ triggerQueries' = 1
    /\ chart' = [chart EXCEPT !.triggerQuery = TRUE]
    /\ props' = [props EXCEPT !.force = FALSE]
    /\ debounced(onQuery(env).history)
    /\ UNCHANGED lastQueriedControls
    /\ changed' = afterQuery

\* onQuery called by a handler that captured env
RunQuery(env) ==
    /\ dispatched' = onQuery(env).dispatched
    /\ triggerQueries' = 1
    /\ chart' = [chart EXCEPT !.triggerQuery = TRUE]
    /\ props' = [props EXCEPT !.force = FALSE]
    /\ debounced(onQuery(env).history)
    /\ lastQueriedControls' = Some(env.controls)
    /\ changed' = afterQuery

\* 324-329 onQuery, called by the run-query affordance
OnQuery ==
    /\ Quiescent
    /\ ops < MaxOps
    /\ ops' = ops + 1
    /\ RunQuery(capturedProps)
    /\ UNCHANGED <<controls, previousControls, staleMemo, classified, mounted,
                   chartId, controlsRef, hooks, listeners, started>>
    /\ UNCHANGED <<dynamicPlugin, pluginRef, closure, lastQuery, lastEvent, saves, tabId, collection>>
    /\ UNCHANGED persistVars

\* the chart container runs the query that triggerQuery asked for
QueryIssued ==
    /\ Quiescent
    /\ chart.triggerQuery
    /\ chart' = [latestQueryFormData |-> form_data, triggerQuery |-> FALSE]
    /\ changed' = {"chart", "form_data"}
    /\ dispatched' = {"postChartFormData"}
    /\ triggerQueries' = 0
    /\ UNCHANGED <<controls, previousControls, lastQueriedControls, staleMemo,
                   classified, mounted, chartId, controlsRef, hooks, listeners, ops>>
    /\ UNCHANGED <<bridgeVars, debounceVars, persistVars>>

\* props.chart.id changes: the chart is saved as another slice
SetChartId ==
    /\ Quiescent
    /\ ops < MaxOps
    /\ ops' = ops + 1
    /\ chartId' = 3 - chartId
    /\ changed' = {"chart.id", "chart", "form_data"}
    /\ dispatched' = {"sliceUpdated"}
    /\ triggerQueries' = 0
    /\ UNCHANGED <<controls, previousControls, lastQueriedControls, staleMemo,
                   classified, mounted, chart, controlsRef, hooks, listeners>>
    /\ UNCHANGED <<bridgeVars, debounceVars, persistVars>>

\* the component unmounts when the route changes: the cleanups of the effects run
Unmount ==
    /\ mounted = "mounted"
    /\ mounted' = "unmounted"
    /\ listeners' = cleanupListener("keydown", hooks["keydown"],
                        cleanupListener("popstate", hooks["popstate"], listeners))
    /\ location' = [location EXCEPT !.onExplore = FALSE]
    /\ UNCHANGED <<pureVars, chart, chartId, changed, controlsRef, hooks,
                   dispatched, triggerQueries, ops>>
    /\ UNCHANGED <<running, remote, history, requests, completed, navLog,
                   warnLog, uncaught, cursor>>
    /\ UNCHANGED debounceVars
    /\ UNCHANGED bridgeVars

Init ==
    /\ InitHooks
    /\ controls = InitialControls
    /\ chart = [latestQueryFormData |-> getFormDataFromControls(InitialControls),
                triggerQuery |-> FALSE]
    /\ chartId = 1
    /\ previousControls = None
    /\ lastQueriedControls = None
    /\ staleMemo = FALSE
    /\ classified = None
    /\ InitBridge(DefaultProps, None)
    /\ InitHistoryAt({NoKey, 1})

Next ==
    \/ Mount
    \/ Render
    \/ \E names \in SUBSET ControlNames : SetControls(names)
    \/ OnQuery
    \/ QueryIssued
    \/ SetChartId
    \/ Unmount
    \/ \E d \in TickSizes : Tick(d)
    \/ \E e \in running : RemoteComplete(e)

Spec == Init /\ [][Next]_vars

(***************************************************************************)
(* Properties of the component.                                            *)
(***************************************************************************)
\* the store holds a control mutation that the next render pass will see,
\* and the only controls whose value it changed have renderTrigger
RenderTriggerOnlyMutation ==
    /\ mounted = "mounted"
    /\ "controls" \in changed
    /\ controlsRef # None
    /\ \E n \in DOMAIN controls : controls[n].value # controlsRef[1][n].value
    /\ \A n \in DOMAIN controls :
          controls[n].value # controlsRef[1][n].value => controls[n].renderTrigger

\* this step is the render pass that sees the mutation
RendersMutation == mounted' = "mounted" /\ "controls" \notin changed'

\* a visual re-render and no query: updateQueryFormData and renderTriggered
\* are dispatched, triggerQuery is not, the last queried snapshot stays, and
\* a persist without isReplace is scheduled
VisualReRender ==
    /\ {"updateQueryFormData", "renderTriggered"} \subseteq dispatched'
    /\ "triggerQuery" \notin dispatched'
    /\ chart'.triggerQuery = chart.triggerQuery
    /\ lastQueriedControls' = lastQueriedControls
    /\ Len(calls') = Len(calls) + 1
    /\ lastArgs' = Some(addHistory(FALSE))
    /\ sinceCall' = 0

\* C5 as stated: every control mutation that changes only renderTrigger
\* controls leads to a visual re-render without a query and schedules a
\* persist without isReplace.
C5_Original ==
    [][(RenderTriggerOnlyMutation /\ RendersMutation) => VisualReRender]_vars

\* C5 amended: the same, when the viz_type control has the value of the
\* viz_type of the chart's latest queried form data.
C5_VisualReRender ==
    [][(RenderTriggerOnlyMutation /\ vizTypeMatches /\ RendersMutation)
          => VisualReRender]_vars

\* color_scheme alone was changed and the render pass re-rendered the chart
C5_Witness ==
    /\ mounted = "mounted"
    /\ previousControls # None
    /\ previousControls[1]["color_scheme"].value # controls["color_scheme"].value
    /\ previousControls[1]["granularity"].value = controls["granularity"].value
    /\ previousControls[1]["viz_type"].value = controls["viz_type"].value
    /\ classified # None
    /\ classified[1].display = {"color_scheme"}
    /\ "updateQueryFormData" \in dispatched
    /\ chart.latestQueryFormData["color_scheme"] = controls["color_scheme"].value
    /\ lastArgs # None
    /\ ~staleMemo

ListenersOf(type) == {l \in listeners : l.type = type}

\* C9: while the component is mounted, exactly one popstate listener and
\* exactly one keydown listener are registered, whether the handler of a
\* render is a new function or the same one.
C9_OneListener ==
    mounted = "mounted" =>
        \A type \in EventTypes : Cardinality(ListenersOf(type)) = 1

\* the last run of each listener effect replaced a handler by a new one
HandlersReplaced ==
    \A type \in EventTypes :
        /\ hooks[type].deps # None
        /\ hooks[type].deps[1][2] # None
        /\ hooks[type].deps[1][2] # Some(hooks[type].handler)

C9_Witness == mounted = "mounted" /\ HandlersReplaced

\* C10: after the unmount no popstate listener and no keydown listener of
\* the component is registered.
C10_NoListenerAfterUnmount == mounted = "unmounted" => listeners = {}

\* the component was unmounted after its handlers had been replaced
C10_Witness == mounted = "unmounted" /\ HandlersReplaced

(***************************************************************************)
(* The staleness memo and the classification on arbitrary snapshot pairs:  *)
(* lastQueriedControls and previousControls hold the same snapshot, and    *)
(* one render pass evaluates the memo (480-505) and the classification of  *)
(* the controls effect (461-473).                                          *)
(***************************************************************************)
PureNames == {"granularity", "color_scheme"}

ControlSet == [value : Values, renderTrigger : BOOLEAN, dontRefreshOnChange : BOOLEAN]

Snapshots == UNION {[S -> ControlSet] : S \in SUBSET PureNames}

InitPure ==
    /\ controls \in Snapshots
    /\ \E A \in Snapshots :
          /\ previousControls = Some(A)
          /\ lastQueriedControls = Some(A)
    /\ staleMemo = FALSE
    /\ classified = None
    /\ InitHooks
    /\ chart = [latestQueryFormData |-> NoControls, triggerQuery |-> FALSE]
    /\ chartId = 1
    /\ InitBridge(DefaultProps, None)
    /\ InitHistoryAt({NoKey})

Evaluate ==
    /\ classified = None
    /\ staleMemo' = chartIsStale(lastQueriedControls, controls)
    /\ classified' = Some(classify(previousControls[1], controls))
    /\ UNCHANGED <<controls, previousControls, lastQueriedControls>>
    /\ UNCHANGED <<hookVars, bridgeVars, debounceVars, persistVars>>

NextPure == Evaluate

SpecPure == InitPure /\ [][NextPure]_vars

(***************************************************************************)
(* Properties of the staleness memo and of the classification.             *)
(***************************************************************************)
\* the names present in both the current and the earlier snapshot
InBoth(earlier) == DOMAIN controls \cap DOMAIN earlier

\* deep inequality of two values, the datasourceWarning field left out
DiffersIgnoringWarning(value1, value2) ==
    [value1 EXCEPT !.w = 0] # [value2 EXCEPT !.w = 0]

\* C2: chartIsStale is true exactly when a control present in both the last
\* queried and the current snapshot differs in value (datasourceWarning
\* ignored) and has neither renderTrigger nor dontRefreshOnChange.
C2_StaleIff ==
    classified # None =>
        (staleMemo <=>
            \E n \in InBoth(lastQueriedControls[1]) :
                /\ DiffersIgnoringWarning(controls[n].value,
                                          lastQueriedControls[1][n].value)
                /\ ~controls[n].renderTrigger
                /\ ~controls[n].dontRefreshOnChange)

\* granularity went from 'day' to 'week' and the memo is true, while the
\* other control differs only in datasourceWarning
C2_Witness ==
    /\ classified # None
    /\ staleMemo
    /\ DOMAIN controls = PureNames
    /\ DOMAIN lastQueriedControls[1] = PureNames
    /\ lastQueriedControls[1]["granularity"].value = Prim(0)
    /\ controls["granularity"] = Control(Prim(1), FALSE, FALSE)
    /\ lastQueriedControls[1]["color_scheme"].value = Obj(0, 0)
    /\ controls["color_scheme"] = Control(Obj(0, 1), FALSE, FALSE)

\* the only controls whose value differs have renderTrigger
OnlyRenderTriggerDiffers ==
    \A n \in InBoth(previousControls[1]) :
        controls[n].value # previousControls[1][n].value => controls[n].renderTrigger

\* C3: when the only controls whose value differs have renderTrigger, the
\* memo is false and every such control is in displayControlsChanged.
C3_RenderTriggerOnly ==
    (classified # None /\ OnlyRenderTriggerDiffers) =>
        /\ ~staleMemo
        /\ \A n \in InBoth(previousControls[1]) :
              controls[n].value # previousControls[1][n].value =>
                  n \in classified[1].display

\* a renderTrigger control differs, nothing else does
C3_Witness ==
    /\ classified # None
    /\ OnlyRenderTriggerDiffers
    /\ DOMAIN controls = PureNames
    /\ DOMAIN previousControls[1] = PureNames
    /\ previousControls[1]["color_scheme"] = Control(Prim(0), FALSE, FALSE)
    /\ controls["color_scheme"] = Control(Prim(1), TRUE, FALSE)
    /\ classified[1].display = {"color_scheme"}
    /\ ~staleMemo

\* the value of control n put back to its last queried value
Reverted(n) ==
    [controls EXCEPT ![n].value = lastQueriedControls[1][n].value]

\* a control with dontRefreshOnChange has changed value
DontRefreshChanged(n) ==
    /\ n \in InBoth(previousControls[1])
    /\ controls[n].value # previousControls[1][n].value
    /\ controls[n].dontRefreshOnChange

\* C4 as stated: a changed control with dontRefreshOnChange is in neither
\* the visual-only set nor the query-affecting set, whatever its
\* renderTrigger, and the memo ignores it.
C4_Original ==
    classified # None =>
        \A n \in DOMAIN controls :
            DontRefreshChanged(n) =>
                /\ n \notin classified[1].display
                /\ n \notin staleControlKeys(lastQueriedControls[1], controls)
                /\ staleMemo = chartIsStale(lastQueriedControls, Reverted(n))

\* C4 amended: a changed control with dontRefreshOnChange is never in the
\* query-affecting set and the memo ignores it; it is in the visual-only
\* set exactly when it has renderTrigger.
C4_DontRefresh ==
    classified # None =>
        \A n \in DOMAIN controls :
            DontRefreshChanged(n) =>
                /\ n \in classified[1].display <=> controls[n].renderTrigger
                /\ n \notin staleControlKeys(lastQueriedControls[1], controls)
                /\ staleMemo = chartIsStale(lastQueriedControls, Reverted(n))

\* a changed control with dontRefreshOnChange and renderTrigger is in the
\* visual-only set, and one without renderTrigger is in no set
C4_Witness ==
    /\ classified # None
    /\ DontRefreshChanged("color_scheme")
    /\ controls["color_scheme"].renderTrigger
    /\ "color_scheme" \in classified[1].display
    /\ DontRefreshChanged("granularity")
    /\ ~controls["granularity"].renderTrigger
    /\ ~staleMemo

(***************************************************************************)
(* Properties of the history synchronizer.                                 *)
(***************************************************************************)
\* call i is the last call of its burst: no call followed it within the wait
LastOfBurst(i) == i = Len(calls) \/ calls[i + 1].gap >= DebounceWait

\* the burst that ends with call i is over: the wait has passed after call i
BurstOver(i) == LastOfBurst(i) /\ (i = Len(calls) => lastArgs = None)

ExecutionsOf(i) == {k \in 1..Len(started) : started[k].call = i}

\* C1: every burst of calls less than DebounceWait apart leads to exactly one
\* execution of the body, started after DebounceWait of quiescence with the
\* arguments of the last call of the burst; the other calls of the burst
\* are never executed and reach neither the remote store nor the history.
C1_Debounce ==
    /\ \A i \in 1..Len(calls) :
          Cardinality(ExecutionsOf(i)) = IF BurstOver(i) THEN 1 ELSE 0
    /\ \A k \in 1..Len(started) :
          /\ started[k].quiet >= DebounceWait
          /\ started[k].args = calls[started[k].call].args
    /\ \A r \in requests :
          /\ BurstOver(r.call)
          /\ r.formData = calls[r.call].args.formData
    /\ \A n \in navLog :
          /\ BurstOver(n.call)
          /\ n.formData = calls[n.call].args.formData

\* a burst of two calls with different arguments, less than the wait apart,
\* has been executed
C1_Witness ==
    \E k \in 1..Len(started) :
        LET i == started[k].call
        IN  /\ i >= 2
            /\ calls[i].gap < DebounceWait
            /\ calls[i].gap > 0
            /\ calls[i - 1].args # calls[i].args

\* C6: when the remote call of an execution completes while the location is
\* not on the explore route, neither replaceState nor pushState is called;
\* leaving the route cancels no remote call, and a remote call that
\* succeeds has stored the form data.
C6_RouteGuard ==
    [][
        /\ \A e \in running :
            (e \notin running' /\ ~location.onExplore) =>
                /\ history' = history
                /\ location' = location
                /\ navLog' = navLog
                /\ ([call |-> e.call, ok |-> TRUE] \in completed' =>
                      \E k \in DOMAIN remote' : remote'[k] = e.args.formData)
        /\ (location'.onExplore # location.onExplore =>
              running' = running /\ requests' = requests)]_vars

\* a remote call succeeded off the explore route: its execution has no
\* navigation mutation
C6_Witness ==
    \E c \in completed :
        /\ c.ok
        /\ \A n \in navLog : n.call # c.call
        /\ \E k \in DOMAIN remote : remote[k] = calls[c.call].args.formData

\* the route guard stated without its condition: every successful remote
\* call is followed by a navigation mutation
C6_Unguarded == \A c \in completed : c.ok => \E n \in navLog : n.call = c.call

\* C7: a failed remote call is caught and logged as a warning; the navigation
\* state is unchanged, nothing is thrown to the caller, nothing is
\* rescheduled, and a request is sent only by an execution that a call of
\* updateHistory started.
C7_FailureIsLogged ==
    [][
        /\ \A e \in running :
            (e \notin running' /\ [call |-> e.call, ok |-> FALSE] \in completed') =>
                /\ warnLog' = warnLog \cup {e.call}
                /\ uncaught' = uncaught
                /\ history' = history
                /\ location' = location
                /\ navLog' = navLog
                /\ remote' = remote
                /\ lastArgs' = lastArgs
                /\ sinceCall' = sinceCall
                /\ requests' = requests
                /\ running' = running \ {e}
        /\ \A r \in requests' \ requests :
              /\ lastArgs = Some(calls[r.call].args)
              /\ lastArgs' = None
              /\ \A q \in requests : q.call # r.call]_vars

\* a remote call has failed
C7_Witness ==
    \E c \in completed : ~c.ok /\ c.call \in warnLog /\ uncaught = {}

\* C8: an execution with isReplace posts a new entry under a fresh key and
\* then calls replaceState; an execution without isReplace puts the form
\* data at the key read from the URL and then calls pushState, which adds
\* one history entry; the two are never mixed.
C8_ReplaceOrPush ==
    [][
        /\ \A e \in running' \ running :
            /\ e.key = IF e.args.isReplace \/ "form_data_key" \notin DOMAIN location.search
                       THEN NoKey
                       ELSE location.search["form_data_key"]
            /\ \E r \in requests' \ requests :
                  /\ r.call = e.call
                  /\ r.key = e.key
                  /\ r.method = IF e.args.isReplace THEN "post" ELSE "put"
        /\ \A e \in running :
            (e \notin running' /\ [call |-> e.call, ok |-> TRUE] \in completed') =>
                LET fd == e.args.formData
                IN  IF e.args.isReplace
                    THEN \E k \in DOMAIN remote' \ DOMAIN remote :
                           /\ remote'[k] = fd
                           /\ \A n \in navLog' \ navLog :
                                 /\ n.method = "replaceState"
                                 /\ n.key = k
                                 /\ Len(history') = Len(history)
                                 /\ Last(history').state = Some(fd)
                    ELSE /\ DOMAIN remote' = DOMAIN remote
                         /\ remote'[e.key] = fd
                         /\ \A n \in navLog' \ navLog :
                               /\ n.method = "pushState"
                               /\ n.key = e.key
                               /\ Len(history') = Len(history) + 1
                               /\ SubSeq(history', 1, Len(history)) = history
                               /\ Last(history').state = Some(fd)
                               /\ Last(history').url["form_data_key"] = e.key]_vars

\* both a replace execution and a push execution have mutated the history
C8_Witness ==
    /\ \E n \in navLog : n.method = "replaceState" /\ calls[n.call].args.isReplace
    /\ \E n \in navLog : n.method = "pushState" /\ ~calls[n.call].args.isReplace
    /\ Len(history) >= 2

(***************************************************************************)
(* The store updates of the props that the controls do not determine and   *)
(* the events of the browser, index.jsx 250-253, 311-357, 408-423, 515-520.*)
(***************************************************************************)
\* explore.force changes: setForceQuery of the chart panel
SetForceQuery ==
    /\ Quiescent
    /\ ops < MaxOps
    /\ ops' = ops + 1
    /\ props' = [props EXCEPT !.force = ~props.force]
    /\ changed' = {"force", "form_data"}
    /\ dispatched' = {"setForceQuery"}
    /\ triggerQueries' = 0
    /\ UNCHANGED <<pureVars, mounted, chart, chartId, controlsRef, hooks, listeners>>
    /\ UNCHANGED <<dynamicPlugin, pluginRef, closure, lastQuery, lastEvent, saves, tabId, collection>>
    /\ UNCHANGED <<debounceVars, persistVars>>

OwnStates == {1, 2}

\* dataMask[slice_id].ownState changes: the chart reports a new own state
SetOwnState(ownState) ==
    /\ Quiescent
    /\ ops < MaxOps
    /\ ops' = ops + 1
    /\ props.ownState # Some(ownState)
    /\ props' = [props EXCEPT !.ownState = Some(ownState)]
    /\ changed' = {"ownState", "form_data"}
    /\ dispatched' = {"updateDataMask"}
    /\ triggerQueries' = 0
    /\ UNCHANGED <<pureVars, mounted, chart, chartId, controlsRef, hooks, listeners>>
    /\ UNCHANGED <<dynamicPlugin, pluginRef, closure, lastQuery, lastEvent, saves, tabId, collection>>
    /\ UNCHANGED <<debounceVars, persistVars>>

SaveActions == {"saveas", "overwrite"}

\* the save modal dispatches setSaveAction: props.saveAction changes
SetSaveAction(action) ==
    /\ Quiescent
    /\ ops < MaxOps
    /\ ops' = ops + 1
    /\ props.saveAction # Some(action)
    /\ props' = [props EXCEPT !.saveAction = Some(action)]
    /\ changed' = {"saveAction"}
    /\ dispatched' = {"setSaveAction"}
    /\ triggerQueries' = 0
    /\ UNCHANGED <<pureVars, mounted, chart, chartId, controlsRef, hooks, listeners>>
    /\ UNCHANGED <<dynamicPlugin, pluginRef, closure, lastQuery, lastEvent, saves, tabId, collection>>
    /\ UNCHANGED <<debounceVars, persistVars>>

\* the store replaces props.controls; the controls in names carry validation
\* errors, the values are the same
SetValidationErrors(names) ==
    /\ Quiescent
    /\ ops < MaxOps
    /\ ops' = ops + 1
    /\ props.validationErrors # names
    /\ props' = [props EXCEPT !.validationErrors = names]
    /\ changed' = {"controls", "form_data"}
    /\ dispatched' = {"setControlValue"}
    /\ triggerQueries' = 0
    /\ UNCHANGED <<pureVars, mounted, chart, chartId, controlsRef, hooks, listeners>>
    /\ UNCHANGED <<dynamicPlugin, pluginRef, closure, lastQuery, lastEvent, saves, tabId, collection>>
    /\ UNCHANGED <<debounceVars, persistVars>>

\* src/hooks/useTabId: the effect of the hook has found the id of the tab and
\* sets its state
TabIdResolved ==
    /\ mounted = "mounted"
    /\ tabId = None
    /\ tabId' = Some(TabId)
    /\ UNCHANGED collection
    /\ changed' = changed \cup {"tabId"}
    /\ UNCHANGED <<pureVars, mounted, chart, chartId, controlsRef, hooks, listeners,
                   dispatched, triggerQueries, ops>>
    /\ UNCHANGED <<props, dynamicPlugin, pluginRef, closure, lastQuery, lastEvent, saves>>
    /\ UNCHANGED <<debounceVars, persistVars>>

\* the values of dynamicPlugin && dynamicPlugin.mounting, 251-252
PluginStates == {None, Some(FALSE), Some(TRUE)}

\* the plugin registry changes the entry of props.vizType
SetDynamicPlugin(mounting) ==
    /\ Quiescent
    /\ ops < MaxOps
    /\ ops' = ops + 1
    /\ dynamicPlugin # mounting
    /\ dynamicPlugin' = mounting
    /\ changed' = {"dynamicPlugin"}
    /\ dispatched' = {}
    /\ triggerQueries' = 0
    /\ UNCHANGED <<pureVars, mounted, chart, chartId, controlsRef, hooks, listeners>>
    /\ UNCHANGED <<props, pluginRef, closure, lastQuery, lastEvent, saves, tabId, collection>>
    /\ UNCHANGED <<debounceVars, persistVars>>

\* src/explore/reducers SET_EXPLORE_CONTROLS: every control takes its value
\* from formData
setExploreControls(ctl, formData) ==
    [n \in DOMAIN ctl |->
        [ctl[n] EXCEPT !.value = IF n \in DOMAIN formData
                                 THEN formData[n]
                                 ELSE Undefined]]

\* 314-320: setExploreControls(formData) and postChartFormData(formData,
\* force, timeout, chart.id) of a handler that captured env; the query of
\* formData starts, and formData becomes the chart's latest query form data
restoreFormData(env, formData) ==
    /\ controls' = setExploreControls(controls, formData)
    /\ lastQuery' = Some([formData |-> formData, force |-> env.force,
                          chartId |-> env.chartId])
    /\ chart' = [chart EXCEPT !.latestQueryFormData = formData]
    /\ dispatched' = {"setExploreControls", "postChartFormData"}
    /\ triggerQueries' = 0
    /\ changed' = {"controls", "form_data", "chart"}

\* a handler that does not test Object.keys(formData).length
handlePopstate_noLengthTest(env, state) ==
    IF state # None
    THEN restoreFormData(env, state[1])
    ELSE UNCHANGED <<controls, lastQuery, chart, dispatched, triggerQueries, changed>>

\* 311-322 handlePopstate of a handler that captured env, with state the
\* value of window.history.state
handlePopstate(env, state) ==
    IF state # None /\ DOMAIN state[1] # {}
    THEN restoreFormData(env, state[1])
    ELSE UNCHANGED <<controls, lastQuery, chart, dispatched, triggerQueries, changed>>

\* the user goes back or forward to entry i of the history: the browser
\* makes it the current entry and delivers popstate to the listeners of window
Popstate(i) ==
    /\ Quiescent
    /\ ops < MaxOps
    /\ ops' = ops + 1
    /\ location.onExplore
    /\ i \in 1..Len(history)
    /\ i # cursor
    /\ cursor' = i
    /\ location' = [location EXCEPT !.search = history[i].url]
    /\ lastEvent' = Some([type |-> "popstate", state |-> history[i].state])
    /\ IF listener("window", "popstate", hooks["popstate"].handler) \in listeners
       THEN handlePopstate(closure["popstate"][1], history[i].state)
       ELSE UNCHANGED <<controls, lastQuery, chart, dispatched, triggerQueries, changed>>
    /\ UNCHANGED <<previousControls, lastQueriedControls, staleMemo, classified,
                   mounted, chartId, controlsRef, hooks, listeners>>
    /\ UNCHANGED <<props, dynamicPlugin, pluginRef, closure, saves, tabId, collection>>
    /\ UNCHANGED <<running, remote, history, requests, completed, navLog,
                   warnLog, uncaught>>
    /\ UNCHANGED debounceVars

\* the keydown events: the modifiers held and the key pressed
KeyEvents == [ctrlKey : BOOLEAN, metaKey : BOOLEAN, key : {"Enter", "s", "a"}]

\* 341-348 saveSlice(form_data, {action: 'overwrite', ...}) of a handler
\* that captured env: the call, before the store has answered
saveSlice(env) ==
    [formData |-> getFormDataFromControls(env.controls), action |-> "overwrite",
     status |-> "pending"]

\* what no handler changes when it does nothing
handlerVars == <<dispatched, triggerQueries, chart, props, lastQueriedControls, changed,
                 lastArgs, sinceCall, calls, saves>>

\* a handler that saves whether or not a slice exists
handleKeydown_savesWithoutSlice(env, event) ==
    LET controlOrCommand == event.ctrlKey \/ event.metaKey
        isEnter == event.key = "Enter"
        isS == event.key = "s"
    IN  IF controlOrCommand /\ isEnter
        THEN RunQuery(env) /\ UNCHANGED saves
        ELSE IF controlOrCommand /\ isS
             THEN /\ saves' = Append(saves, saveSlice(env))
                  /\ dispatched' = {"saveSlice"}
                  /\ triggerQueries' = 0
                  /\ UNCHANGED <<chart, props, lastQueriedControls, changed,
                                 lastArgs, sinceCall, calls>>
             ELSE UNCHANGED handlerVars

\* 331-357 handleKeydown of a handler that captured env
handleKeydown(env, event) ==
    LET controlOrCommand == event.ctrlKey \/ event.metaKey
        isEnter == event.key = "Enter"
        isS == event.key = "s"
    IN  IF controlOrCommand /\ isEnter
        THEN RunQuery(env) /\ UNCHANGED saves
        ELSE IF controlOrCommand /\ isS /\ env.slice
             THEN /\ saves' = Append(saves, saveSlice(env))
                  /\ dispatched' = {"saveSlice"}
                  /\ triggerQueries' = 0
                  /\ UNCHANGED <<chart, props, lastQueriedControls, changed,
                                 lastArgs, sinceCall, calls>>
             ELSE UNCHANGED handlerVars

\* the user presses a key: the browser delivers keydown to the listeners of
\* document
Keydown(event) ==
    /\ Quiescent
    /\ ops < MaxOps
    /\ ops' = ops + 1
    /\ lastEvent' = Some([type |-> "keydown", event |-> event])
    /\ IF listener("document", "keydown", hooks["keydown"].handler) \in listeners
       THEN handleKeydown(closure["keydown"][1], event)
       ELSE UNCHANGED handlerVars
    /\ UNCHANGED <<controls, previousControls, staleMemo, classified, mounted,
                   chartId, controlsRef, hooks, listeners, started>>
    /\ UNCHANGED <<dynamicPlugin, pluginRef, closure, lastQuery, tabId, collection>>
    /\ UNCHANGED persistVars

\* 349-351: saveSlice resolved, and window.location = data.slice.slice_url
\* loads the page of the slice: the document of the component is gone, with
\* its listeners, its timers and the continuations of its requests; or
\* saveSlice rejected, and the continuation does not run
SaveComplete(k, ok) ==
    /\ k \in 1..Len(saves)
    /\ saves[k].status = "pending"
    /\ saves' = [saves EXCEPT ![k].status = IF ok THEN "resolved" ELSE "rejected"]
    /\ IF ok
       THEN /\ mounted' = "unloaded"
            /\ listeners' = {}
            /\ lastArgs' = None
            /\ running' = {}
       ELSE UNCHANGED <<mounted, listeners, lastArgs, running>>
    /\ UNCHANGED <<pureVars, chart, chartId, changed, controlsRef, hooks,
                   dispatched, triggerQueries, ops>>
    /\ UNCHANGED <<props, dynamicPlugin, pluginRef, closure, lastQuery, lastEvent, tabId, collection>>
    /\ UNCHANGED <<sinceCall, calls, started>>
    /\ UNCHANGED <<remote, location, history, requests, completed, navLog,
                   warnLog, uncaught, cursor>>

(***************************************************************************)
(* The navigation-restore handler in a tab that has a history.             *)
(***************************************************************************)
\* the component before its first render, with the initial controls
InitComponent(p, plugin) ==
    /\ InitHooks
    /\ controls = InitialControls
    /\ chart = [latestQueryFormData |-> getFormDataFromControls(InitialControls),
                triggerQuery |-> FALSE]
    /\ chartId = 1
    /\ previousControls = None
    /\ lastQueriedControls = None
    /\ staleMemo = FALSE
    /\ classified = None
    /\ InitBridge(p, plugin)

\* the query definition of an earlier edit: control name had another value
EarlierFormData(name) ==
    getFormDataFromControls([InitialControls EXCEPT ![name].value = Prim(1)])

\* the controls whose earlier value an entry of the history holds
EarlierEdits == {"granularity", "color_scheme"}

\* the states that the entry of the page load can hold: null, or an object
\* without keys
EmptyStates == {None, Some(NoControls)}

\* the tab has been on the page before: entry 1 is the page load, entry 2
\* holds the query definition of an earlier edit under key 1 and entry 3,
\* the current one, the definition of the controls under key 2
InitHistoryVisited ==
    /\ lastArgs = None
    /\ sinceCall = DebounceWait
    /\ calls = <<>>
    /\ started = <<>>
    /\ running = {}
    /\ \E empty \in EmptyStates, name \in EarlierEdits :
          LET current == getFormDataFromControls(InitialControls)
              url(k) == [p \in {"form_data_key"} |-> k]
          IN  /\ remote = [k \in {1, 2} |->
                              IF k = 1 THEN EarlierFormData(name) ELSE current]
              /\ history = <<[state |-> empty, url |-> NoControls],
                             [state |-> Some(EarlierFormData(name)), url |-> url(1)],
                             [state |-> Some(current), url |-> url(2)]>>
              /\ cursor = 3
              /\ location = [onExplore |-> TRUE, search |-> url(2)]
    /\ requests = {}
    /\ completed = {}
    /\ navLog = {}
    /\ warnLog = {}
    /\ uncaught = {}

InitRestore == InitComponent(DefaultProps, None) /\ InitHistoryVisited

NextRestore ==
    \/ Mount
    \/ Render
    \/ \E name \in EarlierEdits : SetControls({name})
    \/ SetForceQuery
    \/ OnQuery
    \/ QueryIssued
    \/ \E i \in 1..Len(history) : Popstate(i)
    \/ \E d \in TickSizes : Tick(d)
    \/ \E e \in running : RemoteComplete(e)

SpecRestore == InitRestore /\ [][NextRestore]_vars

(***************************************************************************)
(* The shortcut handler, with and without a slice.                         *)
(***************************************************************************)
InitShortcut ==
    /\ \E slice \in BOOLEAN :
          InitComponent([DefaultProps EXCEPT !.slice = slice], None)
    /\ InitHistoryAt({1})

NextShortcut ==
    \/ Mount
    \/ Render
    \/ \E name \in EarlierEdits : SetControls({name})
    \/ QueryIssued
    \/ \E event \in KeyEvents : Keydown(event)
    \/ \E k \in 1..Len(saves), ok \in BOOLEAN : SaveComplete(k, ok)
    \/ \E d \in TickSizes : Tick(d)
    \/ \E e \in running : RemoteComplete(e)

SpecShortcut == InitShortcut /\ [][NextShortcut]_vars

(***************************************************************************)
(* Properties of the event bridge.                                         *)
(***************************************************************************)
\* C11: once a render is committed, the listener registered for popstate
\* and the one registered for keydown are the handlers of that render, and
\* each handler reads the chart id, force, form_data, slice and controls of
\* that render, never those of an earlier render (actions and timeout never
\* change).
C11_LatestClosure ==
    Quiescent =>
        \A type \in EventTypes :
            /\ ListenersOf(type) =
                   {listener(addTarget(type), type, hooks[type].handler)}
            /\ closure[type] = Some(captured(type))

\* this step is a render pass: the first one, or one that renders a change
RenderStep ==
    \/ mounted = "initial" /\ mounted' = "mounted"
    \/ mounted = "mounted" /\ changed # {} /\ changed' # changed

\* this step is a back or forward navigation: the current entry changes and
\* no entry is written
NavigationStep == cursor' # cursor /\ navLog' = navLog

\* the state of the entry that the navigation makes current is a query
\* definition with at least one key
NonEmptyState(state) == state # None /\ DOMAIN state[1] # {}

\* C12: on a back or forward navigation to an entry whose state is a
\* non-empty query definition, the handler dispatches setExploreControls and
\* postChartFormData, every control takes its value from the definition and
\* the query is issued with exactly that definition; when the state is null
\* or has no keys, the controls, the chart, the last queried snapshot, the
\* pending persist and everything else of the component are unchanged.
C12_NavigationRestore ==
    [][
        NavigationStep =>
            LET state == history[cursor'].state
            IN  IF NonEmptyState(state)
                THEN /\ {"setExploreControls", "postChartFormData"} \subseteq dispatched'
                     /\ DOMAIN controls' = DOMAIN controls
                     /\ \A n \in DOMAIN controls' :
                           /\ n \in DOMAIN state[1]
                           /\ controls'[n].value = state[1][n]
                     /\ lastQuery' # None
                     /\ lastQuery'[1].formData = state[1]
                     /\ lastQuery'[1].chartId = chartId
                ELSE /\ UNCHANGED <<pureVars, debounceVars>>
                     /\ UNCHANGED <<mounted, chart, chartId, changed, controlsRef,
                                    hooks, listeners, dispatched>>
                     /\ UNCHANGED <<props, dynamicPlugin, pluginRef, closure,
                                    lastQuery, saves, tabId, collection>>
                     /\ UNCHANGED <<running, remote, history, requests>>]_vars

\* a navigation to the entry of an earlier edit has replaced the controls,
\* and the query of that entry has been issued
C12_Witness ==
    /\ lastEvent # None
    /\ lastEvent[1].type = "popstate"
    /\ NonEmptyState(lastEvent[1].state)
    /\ "setExploreControls" \in dispatched
    /\ lastQuery = Some([formData |-> lastEvent[1].state[1], force |-> FALSE,
                         chartId |-> chartId])
    /\ getFormDataFromControls(controls) = lastEvent[1].state[1]
    /\ controls # InitialControls
    /\ "controls" \in changed

\* the render pass that follows a navigation-restore
RenderAfterRestore == "setExploreControls" \in dispatched /\ RenderStep

\* C13: a navigation-restore does not go through the history synchronizer:
\* neither the handler nor the render pass that follows the replacement of
\* the controls, with its controls effect, calls updateHistory.
C13_RestoreSchedulesNoPersist ==
    [][(NavigationStep \/ RenderAfterRestore) =>
          calls' = calls /\ lastArgs' = lastArgs]_vars

\* this step issues a query: a handler or a render pass dispatches
\* triggerQuery, or a navigation-restore dispatches postChartFormData
IssuesQuery ==
    \/ (ops' # ops \/ RenderStep) /\ "triggerQuery" \in dispatched'
    \/ NavigationStep /\ "setExploreControls" \in dispatched'

\* C16: after the mount the last queried snapshot is replaced only by a step
\* that issues a query, and every step that issues a query (onQuery, the
\* query at mount, the query of a navigation-restore) leaves it equal to the
\* controls that the query was issued for.
C16_LastQueriedIsLastQuery ==
    [][
        /\ (mounted = "mounted" /\ lastQueriedControls' # lastQueriedControls)
              => IssuesQuery
        /\ IssuesQuery => lastQueriedControls' = Some(controls')]_vars

(***************************************************************************)
(* The plugin load coordinator: the registry changes the mounting flag of  *)
(* the selected visualization type while the controls are edited.          *)
(***************************************************************************)
InitPlugin ==
    /\ \E plugin \in PluginStates : InitComponent(DefaultProps, plugin)
    /\ InitHistoryAt({1})

NextPlugin ==
    \/ Mount
    \/ Render
    \/ \E mounting \in PluginStates : SetDynamicPlugin(mounting)
    \/ \E name \in {"viz_type", "color_scheme"} : SetControls({name})
    \/ QueryIssued

SpecPlugin == InitPlugin /\ [][NextPlugin]_vars

\* C14: a render pass calls dynamicPluginControlsReady exactly when the
\* mounting flag was true in the previous pass and is false or absent in this
\* pass; the flag of the previous pass is the one the last render pass saw;
\* no call at mount, on false -> true, false -> false or true -> true, and
\* no call outside a render pass.
C14_PluginReadyEdge ==
    [][
        IF RenderStep
        THEN /\ pluginRef' = dynamicPlugin
             /\ "dynamicPluginControlsReady" \in dispatched'
                   <=> (pluginRef = Some(TRUE) /\ dynamicPlugin # Some(TRUE))
             /\ mounted = "initial" => "dynamicPluginControlsReady" \notin dispatched'
        ELSE /\ pluginRef' = pluginRef
             /\ \/ dispatched' = dispatched
                \/ "dynamicPluginControlsReady" \notin dispatched']_vars

\* the flag went from true to false and the render pass called
\* dynamicPluginControlsReady
C14_Witness ==
    /\ mounted = "mounted"
    /\ "dynamicPluginControlsReady" \in dispatched
    /\ previousControls # None
    /\ pluginRef = Some(FALSE)
    /\ dynamicPlugin = Some(FALSE)

\* the render pass that follows the call of dynamicPluginControlsReady
RenderAfterReady == "dynamicPluginControlsReady" \in dispatched /\ RenderStep

\* the classification of all the controls of this render against those of
\* the previous render
ClassifiedAll ==
    /\ classified' # None
    /\ classified'[1].changed =
           {n \in DOMAIN controls \cap DOMAIN controlsRef[1] :
               controls[n].value # controlsRef[1][n].value}
    /\ PluginControls \subseteq DOMAIN controls

\* the call of dynamicPluginControlsReady leaves a render pass pending
ReadyRendersAgain ==
    ("dynamicPluginControlsReady" \in dispatched' /\ mounted' = "mounted")
        => "controls" \in changed'

\* C15 as stated: after mounting true -> false the next render pass
\* classifies all the controls, also when no value has changed.
C15_Original ==
    [][ReadyRendersAgain /\ (RenderAfterReady => ClassifiedAll)]_vars

\* C15 amended: the same, when the viz_type control has the value of the
\* viz_type of the chart's latest queried form data.
C15_Reconciliation ==
    [][ReadyRendersAgain
          /\ ((RenderAfterReady /\ vizTypeMatches) => ClassifiedAll)]_vars

\* the pass after the load of the plugin classified the controls, the
\* plugin's among them, and found no changed value
C15_Witness ==
    /\ mounted = "mounted"
    /\ classified = Some([changed |-> {}, display |-> {}])
    /\ previousControls # None
    /\ PluginControls \cap DOMAIN previousControls[1] = {}
    /\ PluginControls \subseteq DOMAIN controls
    /\ pluginRef = Some(FALSE)

\* C17: a render pass emits the 'explore controls changed' event exactly
\* when chartIsStale goes from false to true in it; a render pass in which
\* the chart stays stale emits no event.
C17_TelemetryOncePerTransition ==
    [][RenderStep =>
          ("logEvent" \in dispatched' <=> (~staleMemo /\ staleMemo'))]_vars

(***************************************************************************)
(* The effects that run without an action of the user: the component is    *)
(* mounted with or without an own state of the chart and with or without   *)
(* validation errors on a control.                                         *)
(***************************************************************************)
ErrorSets == {{}, {"granularity"}}

InitAuto ==
    /\ \E ownState \in {None, Some(1)}, names \in ErrorSets :
          InitComponent([DefaultProps EXCEPT !.ownState = ownState,
                                             !.validationErrors = names],
                        None)
    /\ InitHistoryAt({1})

NextAuto ==
    \/ Mount
    \/ Render
    \/ \E ownState \in OwnStates : SetOwnState(ownState)
    \/ \E names \in ErrorSets : SetValidationErrors(names)
    \/ SetControls({"color_scheme"})
    \/ OnQuery
    \/ QueryIssued

SpecAuto == InitAuto /\ [][NextAuto]_vars

\* C18: while a control carries validation errors, neither the mount nor a
\* render pass after a change of props triggers a query or sets the
\* last-queried controls; and a change of the validation errors changes
\* neither the chart's query nor the last-queried controls.
C18_ErrorsSuppressAutoQuery ==
    [][
        /\ (hasError /\ RenderStep) =>
               /\ "triggerQuery" \notin dispatched'
               /\ chart'.triggerQuery = chart.triggerQuery
               /\ mounted = "mounted" => lastQueriedControls' = lastQueriedControls
        /\ props'.validationErrors # props.validationErrors =>
               /\ chart' = chart
               /\ lastQueriedControls' = lastQueriedControls]_vars

(***************************************************************************)
(* The component in either rendering mode: props.standalone is fixed when  *)
(* the page is loaded.                                                     *)
(***************************************************************************)
InitStandalone ==
    /\ \E standalone \in BOOLEAN, ownState \in {None, Some(1)} :
          InitComponent([DefaultProps EXCEPT !.standalone = standalone,
                                             !.ownState = ownState],
                        None)
    /\ InitHistoryAt({1})

NextStandalone ==
    \/ Mount
    \/ Render
    \/ \E ownState \in OwnStates : SetOwnState(ownState)
    \/ SetControls({"color_scheme"})
    \/ OnQuery
    \/ QueryIssued
    \/ \E d \in TickSizes : Tick(d)
    \/ \E e \in running : RemoteComplete(e)

SpecStandalone == InitStandalone /\ [][NextStandalone]_vars

\* C20 as stated: a standalone instance never schedules and never starts
\* updateHistory.
C20_Original == props.standalone => (calls = <<>> /\ started = <<>>)

\* C20 amended: a standalone instance calls updateHistory as any other does;
\* every call carries the standalone mode of the instance, and every URL it
\* installs is built for the standalone endpoint.
C20_StandaloneIsPassedOn ==
    /\ \A i \in DOMAIN calls : calls[i].args.standalone = props.standalone
    /\ \A i \in DOMAIN started : started[i].args.standalone = props.standalone
    /\ \A n \in navLog : n.endpointType = endpointType(props.standalone)

\* a standalone instance has installed a URL of the standalone endpoint
C20_Witness ==
    /\ props.standalone
    /\ calls # <<>>
    /\ \E n \in navLog : n.endpointType = "standalone"

\* what a key event that the handler ignores leaves as it was: all but the
\* record of the event itself
IgnoredKey ==
    /\ UNCHANGED <<pureVars, chart, chartId, props, changed, dispatched, mounted>>
    /\ UNCHANGED triggerQueries
    /\ UNCHANGED <<saves, lastQuery, tabId, collection, debounceVars, persistVars>>

\* what the handler does for a key event
Shortcut(event) ==
    LET modifier == event.ctrlKey \/ event.metaKey
    IN  IF modifier /\ event.key = "Enter"
        THEN /\ {"setForceQuery", "triggerQuery"} \subseteq dispatched'
             /\ chart'.triggerQuery
             /\ lastQueriedControls' = Some(controls)
             /\ lastArgs' = Some(addHistory(FALSE))
             /\ saves' = saves
        ELSE IF modifier /\ event.key = "s" /\ props.slice
             THEN /\ saves' = Append(saves, [formData |-> form_data,
                                             action |-> "overwrite",
                                             status |-> "pending"])
                  /\ dispatched' = {"saveSlice"}
                  /\ UNCHANGED <<pureVars, chart, props, changed, calls, lastArgs>>
             ELSE IgnoredKey

\* a save has succeeded in this step
SaveSucceeds ==
    \E k \in DOMAIN saves :
        saves[k].status = "pending" /\ saves'[k].status = "resolved"

\* C19: with Ctrl or Meta, Enter calls onQuery, and s calls saveSlice with
\* the action overwrite only if a slice exists; any other key event changes
\* nothing; the page of the slice is loaded only in the step in which a save
\* succeeds, never at the key event and never when the save fails.
C19_Shortcuts ==
    [][
        /\ \A event \in KeyEvents :
              Keydown(event) => (Shortcut(event) /\ mounted' = mounted)
        /\ (mounted' = "unloaded" /\ mounted # "unloaded") => SaveSucceeds]_vars

\* Ctrl+Enter has run a query, Ctrl+s has saved the slice, the save has
\* succeeded and the page of the slice was loaded
C19_Witness ==
    /\ mounted = "unloaded"
    /\ props.slice
    /\ calls # <<>>
    /\ lastQueriedControls = Some(controls)
    /\ Len(saves) = 1
    /\ saves[1].status = "resolved"
    /\ lastEvent = Some([type |-> "keydown",
                         event |-> [ctrlKey |-> TRUE, metaKey |-> FALSE, key |-> "s"]])

(***************************************************************************)
(* Properties of the controls effect for batches of mutations.             *)
(***************************************************************************)
\* a control whose change makes the chart stale
QueryAffecting(control) == ~control.renderTrigger /\ ~control.dontRefreshOnChange

\* the names whose value the pending mutation changed
MutatedNames ==
    {n \in DOMAIN controls \cap DOMAIN controlsRef[1] :
        controls[n].value # controlsRef[1][n].value}

\* the store holds a control mutation that the next render pass will see
PendingMutation ==
    /\ mounted = "mounted"
    /\ "controls" \in changed
    /\ "setControlValue" \in dispatched
    /\ controlsRef # None

\* the pending mutation changed a renderTrigger control and a
\* query-affecting control
MixedMutation ==
    /\ PendingMutation
    /\ \E n \in MutatedNames : controls[n].renderTrigger
    /\ \E n \in MutatedNames : QueryAffecting(controls[n])

\* C21 as stated: for a batch that changes a renderTrigger control and a
\* query-affecting control the render pass does not call reRenderChart.
C21_Original ==
    [][(MixedMutation /\ RendersMutation)
          => {"updateQueryFormData", "renderTriggered"} \cap dispatched' = {}]_vars

\* C21 amended: for such a batch, when the viz_type control has the value of
\* the latest queried viz_type, the render pass calls reRenderChart with the
\* changed renderTrigger controls: their values, and no value of a changed
\* query-affecting control, enter the chart's form data; no query is
\* triggered and the last queried controls stay.
C21_MixedBatchReRenders ==
    [][(MixedMutation /\ vizTypeMatches /\ RendersMutation) =>
          /\ VisualReRender
          /\ classified' = Some([changed |-> MutatedNames,
                                 display |-> {n \in MutatedNames :
                                                 controls[n].renderTrigger}])
          /\ \A n \in MutatedNames :
                chart'.latestQueryFormData[n] =
                    IF controls[n].renderTrigger
                    THEN controls[n].value
                    ELSE chart.latestQueryFormData[n]]_vars

\* granularity and color_scheme were changed in one batch: the chart was
\* re-rendered with the new color_scheme and the old granularity, and is stale
C21_Witness ==
    /\ mounted = "mounted"
    /\ classified = Some([changed |-> {"granularity", "color_scheme"},
                          display |-> {"color_scheme"}])
    /\ {"updateQueryFormData", "renderTriggered"} \subseteq dispatched
    /\ chart.latestQueryFormData["color_scheme"] = controls["color_scheme"].value
    /\ chart.latestQueryFormData["granularity"] # controls["granularity"].value
    /\ ~chart.triggerQuery
    /\ staleMemo

\* the pending mutation changed a query-affecting control
QueryAffectingMutation ==
    /\ PendingMutation
    /\ \E n \in MutatedNames : QueryAffecting(controls[n])

\* C22 as stated: the render pass that sees a mutation of a query-affecting
\* control triggers a query and schedules a persist.
C22_Original ==
    [][(QueryAffectingMutation /\ RendersMutation) =>
          /\ "triggerQuery" \in dispatched'
          /\ Len(calls') = Len(calls) + 1]_vars

\* C22 amended: that render pass triggers no query and leaves the last
\* queried controls; it schedules a persist only if it re-renders the chart
\* for a renderTrigger control of the same batch; the chart is stale after
\* it exactly if a query-affecting control differs from its last queried
\* value.  The query and its persist come with onQuery.
C22_QueryAffectingMarksStale ==
    [][
        /\ (QueryAffectingMutation /\ RendersMutation) =>
               /\ "triggerQuery" \notin dispatched'
               /\ chart'.triggerQuery = chart.triggerQuery
               /\ lastQueriedControls' = lastQueriedControls
               /\ calls' # calls <=> "renderTriggered" \in dispatched'
               /\ staleMemo' <=>
                      \E n \in DOMAIN controls :
                          /\ QueryAffecting(controls[n])
                          /\ controls[n].value # lastQueriedControls[1][n].value
        /\ OnQuery =>
               /\ "triggerQuery" \in dispatched'
               /\ chart'.triggerQuery
               /\ lastQueriedControls' = Some(controls)
               /\ Len(calls') = Len(calls) + 1
               /\ lastArgs' = Some(addHistory(FALSE))]_vars

\* granularity was changed, the render pass marked the chart stale and
\* scheduled nothing, and then onQuery triggered the query and the persist
C22_Witness ==
    /\ mounted = "mounted"
    /\ staleMemo
    /\ controls["granularity"].value # InitialControls["granularity"].value
    /\ controls["color_scheme"].value = InitialControls["color_scheme"].value
    /\ lastQueriedControls = Some(controls)
    /\ "triggerQuery" \in dispatched
    /\ chart.triggerQuery
    /\ Len(calls) = 1
    /\ Last(calls).args.formData = form_data
    /\ ~Last(calls).args.isReplace

\* the store holds a snapshot that replaced the one of the last render and
\* has the same names with deep-equal values
EqualReplacement ==
    /\ mounted = "mounted"
    /\ "controls" \in changed
    /\ controlsRef # None
    /\ DOMAIN controls = DOMAIN controlsRef[1]
    /\ \A n \in DOMAIN controls :
          areObjectsEqual(controls[n].value, controlsRef[1][n].value, {})

\* C23: the render pass that sees a replaced snapshot with deep-equal values
\* classifies no control as changed, and triggers no re-render, no query
\* and no persist.
C23_ReplaceAllIdempotent ==
    [][(EqualReplacement /\ RendersMutation) =>
          /\ classified' # None => classified'[1] = [changed |-> {}, display |-> {}]
          /\ {"updateQueryFormData", "renderTriggered", "triggerQuery"}
                 \cap dispatched' = {}
          /\ chart' = chart
          /\ lastQueriedControls' = lastQueriedControls
          /\ calls' = calls
          /\ lastArgs' = lastArgs]_vars

\* a navigation restored the form data that the controls already had, and
\* the render pass after it ran the classification and found no change
C23_Witness ==
    /\ mounted = "mounted"
    /\ lastEvent # None
    /\ lastEvent[1].type = "popstate"
    /\ lastEvent[1].state = Some(form_data)
    /\ "setExploreControls" \notin dispatched
    /\ previousControls # None
    /\ getFormDataFromControls(previousControls[1]) = form_data
    /\ classified = Some([changed |-> {}, display |-> {}])

\* C24: the classification reports a name as changed exactly if both
\* snapshots have it and its values are not deep-equal; a name that the
\* previous snapshot lacks is not reported; a value that goes from a defined
\* one to undefined or null is reported.
C24_ChangedIff ==
    classified # None =>
        /\ \A n \in PureNames :
              n \in classified[1].changed <=>
                  /\ n \in InBoth(previousControls[1])
                  /\ controls[n].value # previousControls[1][n].value
        /\ classified[1].changed \cap (PureNames \ DOMAIN previousControls[1]) = {}
        /\ \A n \in InBoth(previousControls[1]) :
              (/\ previousControls[1][n].value \notin {Undefined, Null}
               /\ controls[n].value \in {Undefined, Null})
                  => n \in classified[1].changed

\* granularity went from a value to undefined and is reported; color_scheme
\* is new in this snapshot and is not reported
C24_Witness ==
    /\ classified # None
    /\ DOMAIN previousControls[1] = {"granularity"}
    /\ DOMAIN controls = PureNames
    /\ previousControls[1]["granularity"].value = Prim(1)
    /\ controls["granularity"].value = Undefined
    /\ classified[1].changed = {"granularity"}

(***************************************************************************)
(* The URL that updateHistory writes, index.jsx 173-190 and 216-227: the   *)
(* address bar holds parameters of its own and the form data holds a chart *)
(* id and url_params.                                                      *)
(***************************************************************************)
\* bound on the number of calls of updateHistory in a behaviour of SpecUrl
MaxUrlCalls == 2

\* the parameters that the address bar can hold when the page is loaded
BarParams == [form_data_key |-> 1, foo |-> 5]

AddressBars == {[p \in S |-> BarParams[p]] : S \in SUBSET DOMAIN BarParams}

\* formData.slice_id: absent, 0 or the id of a chart
SliceIds == {Undefined, Prim(0), Prim(7)}

\* formData.url_params: absent, or an object with an entry of its own and
\* entries with reserved names
UrlParams == {Undefined, Obj([bar |-> 6, slice_id |-> 9, form_data_key |-> 9], 0)}

UrlFormData(slice_id, url_params) ==
    LET present == (IF slice_id = Undefined THEN {} ELSE {"slice_id"})
                      \cup (IF url_params = Undefined THEN {} ELSE {"url_params"})
    IN  [n \in present |-> IF n = "slice_id" THEN slice_id ELSE url_params]

UrlFormDatas == {UrlFormData(s, u) : s \in SliceIds, u \in UrlParams}

UrlArgsSet == [formData : UrlFormDatas, datasourceId : {DatasourceId},
               datasourceType : {DatasourceType}, isReplace : BOOLEAN,
               standalone : {FALSE}, force : {FALSE}, title : {"undefined"},
               tabId : {Some(TabId)}]

InitUrl ==
    /\ InitIdleComponent
    /\ lastArgs = None
    /\ sinceCall = DebounceWait
    /\ calls = <<>>
    /\ started = <<>>
    /\ running = {}
    /\ \E search \in AddressBars :
          /\ location = [onExplore |-> TRUE, search |-> search]
          /\ remote = [k \in {search[p] : p \in DOMAIN search \cap {"form_data_key"}} |->
                          UrlFormData(Undefined, Undefined)]
          /\ history = <<[state |-> None, url |-> search]>>
          /\ cursor = 1
    /\ requests = {}
    /\ completed = {}
    /\ navLog = {}
    /\ warnLog = {}
    /\ uncaught = {}

NextUrl ==
    \/ \E args \in UrlArgsSet : Len(calls) < MaxUrlCalls /\ CallUpdateHistory(args)
    \/ \E d \in TickSizes : Tick(d)
    \/ \E e \in running : RemoteComplete(e)

SpecUrl == InitUrl /\ [][NextUrl]_vars

\* the names of the parameters of the identity
IdentityNames == {"slice_id", "datasource_id", "datasource_type"}

\* the parameters that the body collects when it starts, for the address
\* bar bar and the arguments args
CollectedParams(P, bar, args) ==
    LET fd == args.formData
        extra == IF "url_params" \in DOMAIN fd THEN fd["url_params"].v ELSE <<>>
        hasChart == "slice_id" \in DOMAIN fd /\ fd["slice_id"].v # 0
        fromBar(p) == p \in DOMAIN bar /\ P[p] = bar[p]
    IN  /\ DOMAIN bar \subseteq DOMAIN P
        /\ \A p \in DOMAIN bar \ (IdentityNames \cup DOMAIN extra) : P[p] = bar[p]
        /\ IF hasChart
           THEN /\ P["slice_id"] = fd["slice_id"].v
                /\ \A p \in DOMAIN P \cap {"datasource_id", "datasource_type"} :
                      fromBar(p)
           ELSE /\ P["datasource_id"] = args.datasourceId
                /\ P["datasource_type"] = args.datasourceType
                /\ "slice_id" \in DOMAIN P => fromBar("slice_id")
        /\ \A p \in DOMAIN extra \ RESERVED_CHART_URL_PARAMS : P[p] = extra[p]
        /\ \A p \in DOMAIN extra \cap RESERVED_CHART_URL_PARAMS \cap DOMAIN P :
              P[p] # extra[p]
        /\ DOMAIN P \subseteq
               DOMAIN bar \cup IdentityNames
                   \cup (DOMAIN extra \ RESERVED_CHART_URL_PARAMS)

\* C25: the parameters that an execution collects when it starts are those
\* of the address bar at that time, the chart id if the form data has one
\* and else the datasource id and type, and the entries of url_params
\* without a reserved name; the URL it writes holds exactly these and the
\* form-data key.
C25_UrlParameters ==
    [][
        /\ \A e \in running' \ running :
              CollectedParams(e.additionalParam, location.search, e.args)
        /\ \A n \in navLog' \ navLog :
              \E e \in running \ running' :
                  /\ e.call = n.call
                  /\ DOMAIN location'.search =
                         {"form_data_key"} \cup DOMAIN e.additionalParam
                  /\ \A p \in DOMAIN e.additionalParam :
                        location'.search[p] = e.additionalParam[p]]_vars

\* a URL was written for a form data with a chart id and url_params, from
\* an address bar with the parameter foo: it holds foo, the chart id and bar,
\* and no datasource
C25_Witness ==
    /\ navLog # {}
    /\ DOMAIN location.search = {"form_data_key", "foo", "slice_id", "bar"}
    /\ location.search["foo"] = BarParams["foo"]
    /\ location.search["slice_id"] = 7
    /\ location.search["bar"] = 6

(***************************************************************************)
(* Properties of the history entries.                                      *)
(***************************************************************************)
\* every mutation of the navigation state belongs to a remote call that
\* succeeded, and carries the form data of its call
MutationAfterSuccess ==
    \A n \in navLog :
        /\ [call |-> n.call, ok |-> TRUE] \in completed
        /\ n.formData = calls[n.call].args.formData

\* no execution mutates the navigation state twice
AtMostOneMutation ==
    \A n1, n2 \in navLog : n1.call = n2.call => n1 = n2

\* the executions that end in this step with a remote call that succeeded
Succeeding ==
    {e \in running \ running' : [call |-> e.call, ok |-> TRUE] \in completed'}

\* this step writes the form data of e into the current history entry: one
\* call of replaceState, which rewrites the entry, or of pushState, which
\* adds an entry
WritesEntry(e) ==
    /\ \E n \in navLog' \ navLog :
          /\ navLog' = navLog \cup {n}
          /\ n.call = e.call
          /\ n.method = IF e.args.isReplace THEN "replaceState" ELSE "pushState"
    /\ cursor' = IF e.args.isReplace THEN cursor ELSE cursor + 1
    /\ Len(history') = cursor'
    /\ history'[cursor'].state = Some(e.args.formData)

\* C26 as stated: every mutation follows the success of the remote call of
\* the same form data, no execution mutates twice, and every remote call
\* that succeeded has its mutation.
C26_Original ==
    /\ MutationAfterSuccess
    /\ AtMostOneMutation
    /\ \A c \in completed : c.ok => \E n \in navLog : n.call = c.call

\* C26 amended: every mutation follows the success of the remote call of
\* the same form data, no execution mutates twice, and a remote call that
\* succeeds writes one history entry if the page is on the explore route at
\* that time, and none if it is not; a remote call that fails writes none.
C26_EntryPerSuccessOnRoute ==
    [][
        /\ MutationAfterSuccess'
        /\ AtMostOneMutation'
        /\ \A e \in Succeeding :
              IF location.onExplore
              THEN WritesEntry(e)
              ELSE UNCHANGED <<navLog, history, cursor>>
        /\ Succeeding = {} => UNCHANGED <<navLog, history, cursor>>]_vars

\* a replace and a push have each written their entry, and a third remote
\* call succeeded off the explore route and wrote none
C26_Witness ==
    /\ \E n \in navLog : n.method = "replaceState"
    /\ \E n \in navLog : n.method = "pushState"
    /\ \E c \in completed : c.ok /\ \A n \in navLog : n.call # c.call
    /\ Cardinality(navLog) = Len(history)

\* the renderTrigger controls whose value differs from that of the
\* preceding render
DisplayMutated == {n \in MutatedNames : controls[n].renderTrigger}

\* the classification compares this render with the preceding one
ComparesPreceding ==
    /\ previousControls' = controlsRef
    /\ classified' # None => classified' = Some([changed |-> MutatedNames,
                                                  display |-> DisplayMutated])

\* one call of reRenderChart: one call of addHistory
OneReRender ==
    "renderTriggered" \in dispatched' =>
        /\ Len(calls') = Len(calls) + 1
        /\ \A n \in DisplayMutated :
              chart'.latestQueryFormData[n] = controls[n].value

\* C27 as stated: every render pass compares with the snapshot of the
\* preceding render and calls reRenderChart, once, exactly if a
\* renderTrigger control changed since that render.
C27_Original ==
    [][Render =>
          /\ ComparesPreceding
          /\ OneReRender
          /\ "renderTriggered" \in dispatched' <=> DisplayMutated # {}]_vars

\* C27 amended: the same, but a render pass in which the viz_type control
\* differs from the latest queried viz_type classifies nothing, and the
\* changes it saw are not classified later either.
C27_NoSkipNoRepeat ==
    [][Render =>
          /\ ComparesPreceding
          /\ OneReRender
          /\ "renderTriggered" \in dispatched'
                <=> (DisplayMutated # {} /\ vizTypeMatches)
          /\ classified' # None <=> ("controls" \in changed /\ vizTypeMatches)]_vars

\* color_scheme was changed twice: the second render pass compared with the
\* first, re-rendered again, and the render pass that the re-render caused
\* classified nothing
C27_Witness ==
    /\ mounted = "mounted"
    /\ Len(calls) = 2
    /\ calls[1].args.formData["color_scheme"] # calls[2].args.formData["color_scheme"]
    /\ calls[1].args.formData["granularity"] = calls[2].args.formData["granularity"]
    /\ previousControls = Some(controls)
    /\ classified = None
    /\ controls["color_scheme"].value = InitialControls["color_scheme"].value
    /\ chart.latestQueryFormData = form_data

\* C28: the URL given to replaceState carries the key that postFormData
\* returned for this execution, whether or not the address bar had a
\* form-data key when the body started.
C28_ReplaceCarriesNewKey ==
    [][\A n \in navLog' \ navLog :
          n.method = "replaceState" =>
              /\ n.key \in DOMAIN remote' \ DOMAIN remote
              /\ history'[cursor'].url["form_data_key"] = n.key
              /\ location'.search["form_data_key"] = n.key]_vars

(***************************************************************************)
(* The component from its first render until the tab id is known and       *)
(* after: the page was opened with or without a form-data key in the URL.  *)
(***************************************************************************)
InitTab ==
    /\ \E ownState \in {None, Some(1)} :
          InitComponent([DefaultProps EXCEPT !.ownState = ownState], None)
    /\ InitHistoryAt({NoKey, 1})

NextTab ==
    \/ Mount
    \/ Render
    \/ TabIdResolved
    \/ OnQuery
    \/ QueryIssued
    \/ \E d \in TickSizes : Tick(d)
    \/ \E e \in running : RemoteComplete(e)

SpecTab == InitTab /\ [][NextTab]_vars

\* C29: every putFormData is sent with the form-data key of the URL, never
\* without a key; and while the call with isReplace is pending in the
\* debounce, no call without isReplace takes its place.
C29_PushOnlyWithKey ==
    [][
        /\ \A r \in requests' : r.method = "put" => r.key # NoKey
        /\ (lastArgs # None /\ lastArgs[1].isReplace /\ lastArgs' # None)
               => lastArgs'[1].isReplace]_vars

\* C30: the mutations of the navigation state are made in the order in
\* which the executions started, and once no execution is pending or
\* running the current history entry holds the form data of the execution
\* that started last, if its remote call succeeded on the explore route.
C30_MutationsInStartOrder ==
    [][
        /\ \A n \in navLog' \ navLog : \A m \in navLog : m.call < n.call
        /\ (running' = {} /\ lastArgs' = None /\ started' # <<>>
                /\ \E n \in navLog' : n.call = Last(started').call)
               => history'[cursor'].state = Some(Last(started').args.formData)]_vars

(***************************************************************************)
(* Properties of the mount effects, 415-423 and 515-520.                   *)
(***************************************************************************)
\* C36: the effects of the first render dispatch triggerQuery at most once,
\* whatever the validation errors and the own state of the initial props.
C36_MountQueriesOnce ==
    [][Mount => triggerQueries' <= 1]_vars

(***************************************************************************)
(* The component while the chart is saved: the save modal sets the save    *)
(* action, 507-513.                                                        *)
(***************************************************************************)
InitSave == InitComponent(DefaultProps, None) /\ InitHistoryAt({NoKey, 1})

NextSave ==
    \/ Mount
    \/ Render
    \/ \E action \in SaveActions : SetSaveAction(action)
    \/ SetControls({"granularity"})
    \/ OnQuery
    \/ QueryIssued
    \/ \E d \in TickSizes : Tick(d)
    \/ \E e \in running : RemoteComplete(e)

SpecSave == InitSave /\ [][NextSave]_vars

\* the calls of updateHistory with isReplace: without a tab id, the calls of
\* the saveAction effect
ReplaceCalls == {k \in DOMAIN calls : calls[k].args.isReplace}

Executed(k) == \E i \in DOMAIN started : started[i].call = k

\* the render pass that runs the saveAction effect: one query is triggered,
\* last-queried becomes the controls, the save action is reset, and two
\* calls of updateHistory are made, without and then with isReplace, of
\* which the second is the pending one
SaveTurn ==
    (Render /\ saveActionChanged(FALSE)) =>
        /\ triggerQueries' = 1
        /\ chart'.triggerQuery
        /\ lastQueriedControls' = Some(controls)
        /\ props'.saveAction = None
        /\ Len(calls') = Len(calls) + 2
        /\ ~calls'[Len(calls) + 1].args.isReplace
        /\ calls'[Len(calls) + 2].args.isReplace
        /\ lastArgs' = Some(calls'[Len(calls) + 2].args)

\* the render pass that sees the save action reset triggers no query and
\* makes no call of updateHistory
ResetTurn ==
    (Render /\ "saveAction" \in changed /\ props.saveAction = None) =>
        /\ triggerQueries' = 0
        /\ "triggerQuery" \notin dispatched'
        /\ calls' = calls
        /\ lastQueriedControls' = lastQueriedControls
        /\ ~staleMemo'

\* of the two calls of a save turn, the one without isReplace is never executed
PushOfSaveNeverExecuted ==
    \A k \in ReplaceCalls' : ~Executed(k - 1)'

\* C31 as stated: the saveAction effect triggers one query, sets
\* last-queried, resets the save action, and of its two calls of
\* updateHistory exactly the one with isReplace is executed, whatever
\* follows; the reset triggers no query and no call.
C31_Original ==
    [][
        /\ SaveTurn
        /\ ResetTurn
        /\ PushOfSaveNeverExecuted
        /\ \A k \in ReplaceCalls' :
              (lastArgs' = None \/ Len(calls') > k) => Executed(k)']_vars

\* C31: the saveAction effect triggers one query, sets last-queried, resets
\* the save action; of its two calls of updateHistory the one without
\* isReplace is never executed, and the one with isReplace is executed when
\* the debounce expires unless a later call of updateHistory took its place
\* within the window; the reset triggers no query and no call.
C31_SaveQueriesAndReplaces ==
    [][
        /\ SaveTurn
        /\ ResetTurn
        /\ PushOfSaveNeverExecuted
        /\ \A k \in ReplaceCalls' :
              /\ (lastArgs' = None /\ Len(calls') = k) => Executed(k)'
              /\ Len(calls') > k =>
                    (Executed(k)' <=> calls'[k + 1].gap >= DebounceWait)]_vars

\* the replace of a save turn was executed and wrote the history entry,
\* after a change of a query-affecting control had made the chart stale
C31_Witness ==
    /\ \E k \in ReplaceCalls :
          /\ Executed(k)
          /\ \E n \in navLog : n.call = k /\ n.method = "replaceState"
    /\ props.saveAction = None
    /\ lastQueriedControls = Some(controls)
    /\ controls # InitialControls
    /\ Quiescent

(***************************************************************************)
(* The history synchronizer with the passing of time: the timer that the   *)
(* debounce sets at a call expires once the wait has passed.               *)
(***************************************************************************)
TimePasses == \E d \in TickSizes : Tick(d)

\* the calls made without isReplace
PushArgsSet == {args \in ArgsSet : ~args.isReplace}

NextLive ==
    \/ \E args \in PushArgsSet : CallUpdateHistory(args)
    \/ TimePasses
    \/ \E e \in running : RemoteComplete(e)

SpecLive == InitSync /\ [][NextLive]_vars /\ WF_vars(TimePasses)

\* C32: once updateHistory has been called, the body is executed with the
\* arguments of that call unless a further call arrives first; a pending
\* call has never waited a full window since the last call.
C32_DebounceLiveness ==
    /\ \A k \in 1..MaxCalls :
          (Len(calls) = k /\ lastArgs # None)
              ~> (Len(calls) > k \/ (Executed(k) /\ Last(started).args = calls[k].args))
    /\ [](lastArgs # None => sinceCall < DebounceWait)

\* the last call of a burst was executed after the window, the calls before
\* it were not
C32_Witness ==
    /\ Len(calls) > 1
    /\ lastArgs = None
    /\ Executed(Len(calls))
    /\ \A k \in 1..(Len(calls) - 1) : ~Executed(k) /\ calls[k + 1].gap < DebounceWait

(***************************************************************************)
(* Properties of the form data of a re-render, 425-444.                    *)
(***************************************************************************)
\* C33: the form data that a re-render for changed renderTrigger controls
\* gives to the chart has the values of the chart's latest queried form
\* data for every name but the changed renderTrigger controls, which have
\* the values of the controls: no other value of the controls enters it.
C33_ReRenderKeepsQueried ==
    [][(Render /\ "renderTriggered" \in dispatched') =>
          /\ DisplayMutated # {}
          /\ DOMAIN chart'.latestQueryFormData
                = DOMAIN chart.latestQueryFormData \cup DisplayMutated
          /\ \A n \in DOMAIN chart'.latestQueryFormData :
                chart'.latestQueryFormData[n] =
                    IF n \in DisplayMutated
                    THEN controls[n].value
                    ELSE chart.latestQueryFormData[n]]_vars

\* the chart was re-rendered for color_scheme while an edit of granularity,
\* made in an earlier turn, was not yet queried: the chart's form data has
\* the new color_scheme and the queried granularity
C33_Witness ==
    /\ mounted = "mounted"
    /\ "renderTriggered" \in dispatched
    /\ classified = Some([changed |-> {"color_scheme"}, display |-> {"color_scheme"}])
    /\ lastQueriedControls # None
    /\ controls["granularity"].value # lastQueriedControls[1]["granularity"].value
    /\ chart.latestQueryFormData["granularity"]
           = lastQueriedControls[1]["granularity"].value
    /\ chart.latestQueryFormData["color_scheme"] = controls["color_scheme"].value

(***************************************************************************)
(* Properties of the last queried snapshot and the staleness memo after    *)
(* onQuery, 324-329 and 480-505.                                           *)
(***************************************************************************)
\* a query-affecting control has a value that is not its last queried one
DiffersFromLastQueried ==
    \E n \in DOMAIN controls \cap DOMAIN lastQueriedControls[1] :
        /\ QueryAffecting(controls[n])
        /\ controls[n].value # lastQueriedControls[1][n].value

VizTypeDiffers ==
    controls["viz_type"].value # chart.latestQueryFormData["viz_type"]

MaxItems == 3

Keys == 1..MaxItems

Labels == {"a", "b"}

\* the values that the control of an item gives to its onChange
Patches == [{"label"} -> Labels]

\* 92: itemGenerator: () => ({ key: nanoid(11) }), with key the generated id
itemGenerator(key) == [f \in {"key"} |-> key]

\* { ...a, ...b }
spread(a, b) ==
    [f \in DOMAIN a \cup DOMAIN b |-> IF f \in DOMAIN b THEN b[f] ELSE a[f]]

\* array.splice(i, 1) on a copy: the array without the item at index i
without(array, i) ==
    IF i \in 0..(Len(array) - 1)
    THEN SubSeq(array, 1, i) \o SubSeq(array, i + 2, Len(array))
    ELSE array

\* react-sortable-hoc arrayMove(array, from, to): a copy of the array in
\* which the item at index from is taken out and put in at index to
arrayMove(array, from, to) ==
    LET rest == without(array, from)
    IN  SubSeq(rest, 1, to) \o <<array[from + 1]>> \o SubSeq(rest, to + 1, Len(rest))

\* the call this.props.onChange(newValue) with a new array; props.value stays
report(value, newValue) ==
    [value |-> value, reported |-> Some(newValue), aliased |-> FALSE]

\* an onAdd that pushes the item on props.value and reports that array
onAdd_push(value, item) ==
    [value |-> value \o <<item>>, reported |-> Some(value \o <<item>>),
     aliased |-> TRUE]

\* 120-122 onAdd
onAdd(value, item) == report(value, value \o <<item>>)

\* 114-118 onChange(i, value)
onChange(value, i, v) ==
    report(value, [value EXCEPT ![i + 1] = spread(value[i + 1], v)])

\* 124-126 onSortEnd({ oldIndex, newIndex })
onSortEnd(value, oldIndex, newIndex) ==
    report(value, arrayMove(value, oldIndex, newIndex))

\* 128-130 removeItem(i): value.filter((o, ix) => i !== ix)
removeItem(value, i) == report(value, without(value, i))

\* the indexes of the items that renderList shows, 147-183
Indexes == 0..(Len(collection.value) - 1)

restOfCollection ==
    <<pureVars, hookVars, debounceVars, persistVars, props, dynamicPlugin,
      pluginRef, closure, lastQuery, lastEvent, saves, tabId>>

\* the add button is clicked
OnAdd ==
    /\ collection.reported = None
    /\ Len(collection.value) < MaxItems
    /\ \E key \in Keys \ {collection.value[j]["key"] : j \in DOMAIN collection.value} :
          collection' = onAdd(collection.value, itemGenerator(key))
    /\ UNCHANGED restOfCollection

\* the control of the item at index i reports the value v
OnChange(i, v) ==
    /\ collection.reported = None
    /\ i \in Indexes
    /\ collection' = onChange(collection.value, i, v)
    /\ UNCHANGED restOfCollection

\* the item at index oldIndex is dragged to index newIndex
OnSortEnd(oldIndex, newIndex) ==
    /\ collection.reported = None
    /\ oldIndex \in Indexes
    /\ newIndex \in Indexes
    /\ collection' = onSortEnd(collection.value, oldIndex, newIndex)
    /\ UNCHANGED restOfCollection

\* the remove icon of the item at index i is clicked
RemoveItem(i) ==
    /\ collection.reported = None
    /\ i \in Indexes
    /\ collection' = removeItem(collection.value, i)
    /\ UNCHANGED restOfCollection

\* the owner of the control stores the reported list and passes it as props.value
SetValue ==
    /\ collection.reported # None
    /\ collection' = [value |-> collection.reported[1], reported |-> None,
                      aliased |-> FALSE]
    /\ UNCHANGED restOfCollection

InitCollection == InitHistoryAt({NoKey}) /\ InitIdleComponent

NextCollection ==
    \/ OnAdd
    \/ \E i \in 0..(MaxItems - 1) : \E v \in Patches : OnChange(i, v)
    \/ \E oldIndex, newIndex \in 0..(MaxItems - 1) : OnSortEnd(oldIndex, newIndex)
    \/ \E i \in 0..(MaxItems - 1) : RemoveItem(i)
    \/ SetValue

SpecCollection == InitCollection /\ [][NextCollection]_vars

\* the number of times x occurs in the list
Occurrences(x, list) == Cardinality({j \in DOMAIN list : list[j] = x})

Items(list) == {list[j] : j \in DOMAIN list}

\* C37: every editing operation gives props.onChange a new array and leaves
\* props.value as it was; onAdd reports the list with one generated item
\* added at the end; removeItem(i) the list without the item at index i,
\* the others in their order; onChange(i, v) the list in which the item at
\* index i alone is replaced, by the old item with the fields of v put over
\* it; onSortEnd a list with the same items, each as many times.
C37_EditsReportNewList ==
    [][
        /\ (collection.reported = None /\ collection'.reported # None) =>
               /\ collection'.value = collection.value
               /\ ~collection'.aliased
        /\ OnAdd =>
               /\ Len(collection'.reported[1]) = Len(collection.value) + 1
               /\ SubSeq(collection'.reported[1], 1, Len(collection.value))
                      = collection.value
               /\ DOMAIN Last(collection'.reported[1]) = {"key"}
               /\ Last(collection'.reported[1]) \notin Items(collection.value)
        /\ \A i \in 0..(MaxItems - 1) :
              RemoveItem(i) =>
                  /\ Len(collection'.reported[1]) = Len(collection.value) - 1
                  /\ \A j \in DOMAIN collection'.reported[1] :
                        collection'.reported[1][j] =
                            IF j <= i
                            THEN collection.value[j]
                            ELSE collection.value[j + 1]
        /\ \A i \in 0..(MaxItems - 1) : \A v \in Patches :
              OnChange(i, v) =>
                  /\ Len(collection'.reported[1]) = Len(collection.value)
                  /\ \A j \in DOMAIN collection.value :
                        j # i + 1 => collection'.reported[1][j] = collection.value[j]
                  /\ DOMAIN collection'.reported[1][i + 1]
                         = DOMAIN collection.value[i + 1] \cup DOMAIN v
                  /\ \A f \in DOMAIN collection'.reported[1][i + 1] :
                        collection'.reported[1][i + 1][f] =
                            IF f \in DOMAIN v THEN v[f] ELSE collection.value[i + 1][f]
        /\ \A oldIndex, newIndex \in 0..(MaxItems - 1) :
              OnSortEnd(oldIndex, newIndex) =>
                  /\ Len(collection'.reported[1]) = Len(collection.value)
                  /\ \A x \in Items(collection.value)
                                 \cup Items(collection'.reported[1]) :
                        Occurrences(x, collection'.reported[1])
                            = Occurrences(x, collection.value)
                  /\ collection'.reported[1][newIndex + 1]
                         = collection.value[oldIndex + 1]]_vars

\* a list of several items, one of them edited, was reported in another order
C37_Witness ==
    /\ collection.reported # None
    /\ Len(collection.value) > 1
    /\ collection.reported[1] # collection.value
    /\ Len(collection.reported[1]) = Len(collection.value)
    /\ Items(collection.reported[1]) = Items(collection.value)
    /\ \E j \in DOMAIN collection.value : "label" \in DOMAIN collection.value[j]

=============================================================================
